---- MODULE Spec2Model ----
(***************************************************************************)
(* Model of the static-analysis core of ai-code-debugger:                  *)
(*   - the dependency analyzer (analyzeDependencies and its helpers),      *)
(*   - the code-quality analyzer (findDuplicateCode, normalizeCode,        *)
(*     calculateSimilarity, calculateCyclomaticComplexity).                *)
(* JavaScript strings are modelled as sequences of one-character strings,  *)
(* so that split, join, slice, startsWith and the regular expressions of   *)
(* the source are computed character by character.                         *)
(***************************************************************************)
EXTENDS Integers, Sequences, FiniteSets, TLC

VARIABLES
    files,      \* input of analyzeDependencies: sequence of [path, content]
    graph,      \* the DependencyGraph it returned (NoGraph before the call)
    pc,         \* "idle" (other specification), "start", "done"
    code,       \* input of calculateCyclomaticComplexity (a function body)
    complexity, \* its result (0 before the call)
    ccpc,       \* "idle", "start", "done"
    qfiles,     \* input of findDuplicateCode: sequence of [path, content]
    allBlocks,  \* the windows findDuplicateCode kept for comparison
    duplicates, \* the findings it returned
    qpc,        \* "idle", "start", "done"
    issues,     \* result of getDependencyIssues (<<>> before the call)
    source,     \* input of extractImports: the text of one file
    extracted,  \* the specifiers it returned
    ipc,        \* "idle", "start", "done"
    report,     \* the CodeQualityReport of analyzeCodeQuality
    request,    \* input of resolveImportPaths: [imports, currentFile]
    resolution, \* the paths it returned
    outcome     \* how a call on unvalidated input ended

vars == <<files, graph, pc, code, complexity, ccpc, qfiles, allBlocks, duplicates, qpc,
          issues, source, extracted, ipc, report, request, resolution, outcome>>

\* the variables of the operations that are modelled further below
laterVars == <<issues, source, extracted, ipc, report, request, resolution, outcome>>

(***************************************************************************)
(* Bounds of the model.                                                    *)
(***************************************************************************)
\* files of an input plus import statements in their contents
MaxSize == 5
\* lexical tokens in a function body
MaxTokens == 5
\* lines of a file given to findDuplicateCode
MaxLines == 7

(***************************************************************************)
(* JavaScript string and array primitives over character sequences.        *)
(***************************************************************************)
Max(a, b) == IF a >= b THEN a ELSE b
Min(a, b) == IF a <= b THEN a ELSE b

\* String.prototype.startsWith
StartsWith(s, p) == Len(s) >= Len(p) /\ SubSeq(s, 1, Len(p)) = p

\* a regular expression ending in `literal$`
EndsWith(s, p) == Len(s) >= Len(p) /\ SubSeq(s, Len(s) - Len(p) + 1, Len(s)) = p

\* the least element of a non-empty set of numbers
Least(S) == CHOOSE x \in S : \A y \in S : x <= y

Indices(s) == [i \in 1..Len(s) |-> i]

\* String.prototype.split(sep) for a one-character separator: the pieces
\* between consecutive separators
Split(s, sep) ==
    LET cuts == SelectSeq(Indices(s), LAMBDA i : s[i] = sep) \o <<Len(s) + 1>>
    IN [k \in 1..Len(cuts) |->
            SubSeq(s, IF k = 1 THEN 1 ELSE cuts[k - 1] + 1, cuts[k] - 1)]

\* Array.prototype.join(sep)
Join(parts, sep) ==
    LET RECURSIVE go(_, _)
        go(i, acc) ==
            IF i > Len(parts) THEN acc
            ELSE go(i + 1, IF i = 1 THEN parts[i] ELSE acc \o sep \o parts[i])
    IN go(1, <<>>)

\* Array.prototype.slice(0, -1)
DropLast(a) == IF Len(a) = 0 THEN <<>> ELSE SubSeq(a, 1, Len(a) - 1)

\* Array.prototype.indexOf, 1-based; 0 stands for -1
IndexOf(a, x) ==
    IF \E i \in 1..Len(a) : a[i] = x
    THEN CHOOSE i \in 1..Len(a) : a[i] = x /\ \A j \in 1..(i - 1) : a[j] # x
    ELSE 0

\* [...new Set(a)]: first occurrences, in order
Unique(a) ==
    LET RECURSIVE go(_, _)
        go(i, acc) ==
            IF i > Len(a) THEN acc
            ELSE go(i + 1, IF \E j \in 1..Len(acc) : acc[j] = a[i] THEN acc ELSE Append(acc, a[i]))
    IN go(1, <<>>)

Range(a) == {a[i] : i \in 1..Len(a)}

(***************************************************************************)
(* Dependency analyzer.                                                    *)
(***************************************************************************)
\* The content of a file is the sequence of the specifiers X of its
\* statements `import "X"`, one statement per line.
extractImports(content) == Unique(content)

isExternalDependency(importPath) ==
    ~StartsWith(importPath, <<".">>) /\ ~StartsWith(importPath, <<"/">>)

\* currentFile.split("/").slice(0, -1).join("/")
currentDirOf(currentFile) == Join(DropLast(Split(currentFile, "/")), <<"/">>)

\* imp.startsWith("./") ? `${currentDir}/${imp.slice(2)}` : imp
joinedPath(imp, currentFile) ==
    IF StartsWith(imp, <<".", "/">>)
    THEN currentDirOf(currentFile) \o <<"/">> \o SubSeq(imp, 3, Len(imp))
    ELSE imp

\* the normalisation loop: ".." pops, "." is skipped, anything else is pushed
normalizePath(resolvedPath) ==
    LET parts == Split(resolvedPath, "/")
        RECURSIVE go(_, _)
        go(i, normalized) ==
            IF i > Len(parts) THEN normalized
            ELSE IF parts[i] = <<".", ".">> THEN go(i + 1, DropLast(normalized))
            ELSE IF parts[i] # <<".">> THEN go(i + 1, Append(normalized, parts[i]))
            ELSE go(i + 1, normalized)
    IN Join(go(1, <<>>), <<"/">>)

Suffixes ==
    << <<>>,
       <<".", "j", "s">>,
       <<".", "j", "s", "x">>,
       <<".", "t", "s">>,
       <<".", "t", "s", "x">>,
       <<".", "p", "y">>,
       <<".", "j", "a", "v", "a">>,
       <<".", "p", "h", "p">>,
       <<"/", "i", "n", "d", "e", "x", ".", "j", "s">>,
       <<"/", "i", "n", "d", "e", "x", ".", "t", "s">>,
       <<"/", "i", "n", "d", "e", "x", ".", "t", "s", "x">>,
       <<"/", "i", "n", "d", "e", "x", ".", "p", "y">>,
       <<"/", "_", "_", "i", "n", "i", "t", "_", "_", ".", "p", "y">> >>

\* the ordered candidate list of one relative specifier
possiblePaths(imp, currentFile) ==
    LET resolvedPath == normalizePath(joinedPath(imp, currentFile))
    IN [k \in 1..Len(Suffixes) |-> resolvedPath \o Suffixes[k]]

\* the candidate loop without its break: every candidate that is the path of
\* a file
firstMatchEvery(imp, currentFile, allFiles) ==
    SelectSeq(possiblePaths(imp, currentFile),
              LAMBDA c : \E i \in 1..Len(allFiles) : allFiles[i].path = c)

\* the candidate loop falling back on the path as written when no candidate
\* is the path of a file
firstMatchOrWritten(imp, currentFile, allFiles) ==
    LET cands == possiblePaths(imp, currentFile)
        hits == {k \in 1..Len(cands) : \E i \in 1..Len(allFiles) : allFiles[i].path = cands[k]}
    IN IF hits = {} THEN <<cands[1]>>
       ELSE <<cands[CHOOSE k \in hits : \A h \in hits : k <= h]>>

\* the candidate loop: the first candidate that is the path of a file, as a
\* sequence of zero or one path
firstMatch(imp, currentFile, allFiles) ==
    LET cands == possiblePaths(imp, currentFile)
        hits == {k \in 1..Len(cands) : \E i \in 1..Len(allFiles) : allFiles[i].path = cands[k]}
    IN IF hits = {} THEN <<>>
       ELSE <<cands[CHOOSE k \in hits : \A h \in hits : k <= h]>>

resolveImportPaths(imports, currentFile, allFiles) ==
    LET RECURSIVE go(_, _)
        go(i, resolved) ==
            IF i > Len(imports) THEN resolved
            ELSE IF isExternalDependency(imports[i]) THEN go(i + 1, resolved)
            ELSE IF StartsWith(imports[i], <<".">>)
                 THEN go(i + 1, resolved \o firstMatch(imports[i], currentFile, allFiles))
            ELSE go(i + 1, resolved)
    IN go(1, <<>>)

\* Map.prototype.set on a map kept as [keys: insertion order, get: key -> value]
MapSet(m, k, v) ==
    [keys |-> IF k \in Range(m.keys) THEN m.keys ELSE Append(m.keys, k),
     get |-> [x \in Range(m.keys) \cup {k} |-> IF x = k THEN v ELSE m.get[x]]]

EmptyMap == [keys |-> <<>>, get |-> <<>>]

MapHas(m, k) == k \in Range(m.keys)

\* first pass in which a file is resolved against the files before it only
firstPassSeenSoFar(allFiles) ==
    LET RECURSIVE go(_, _)
        go(i, nodes) ==
            IF i > Len(allFiles) THEN nodes
            ELSE LET file == allFiles[i]
                     imports == extractImports(file.content)
                 IN go(i + 1, MapSet(nodes, file.path,
                        [path |-> file.path,
                         imports |-> imports,
                         dependencies |-> resolveImportPaths(imports, file.path,
                                                             SubSeq(allFiles, 1, i)),
                         dependents |-> <<>>]))
    IN go(1, EmptyMap)

\* first pass: one node per file, dependents still empty
firstPass(allFiles) ==
    LET RECURSIVE go(_, _)
        go(i, nodes) ==
            IF i > Len(allFiles) THEN nodes
            ELSE LET file == allFiles[i]
                     imports == extractImports(file.content)
                 IN go(i + 1, MapSet(nodes, file.path,
                        [path |-> file.path,
                         imports |-> imports,
                         dependencies |-> resolveImportPaths(imports, file.path, allFiles),
                         dependents |-> <<>>]))
    IN go(1, EmptyMap)

\* const depNode = nodes.get(dep); if (depNode) depNode.dependents.push(path)
pushDependentSwapped(nodes, dep, path) ==
    IF MapHas(nodes, dep)
    THEN [nodes EXCEPT !.get[path].dependents = Append(@, dep)]
    ELSE nodes

pushDependent(nodes, dep, path) ==
    IF MapHas(nodes, dep)
    THEN [nodes EXCEPT !.get[dep].dependents = Append(@, path)]
    ELSE nodes

\* second pass: build the dependents lists
secondPass(nodes0) ==
    LET RECURSIVE overDeps(_, _, _)
        overDeps(nodes, path, j) ==
            IF j > Len(nodes.get[path].dependencies) THEN nodes
            ELSE overDeps(pushDependent(nodes, nodes.get[path].dependencies[j], path), path, j + 1)
        RECURSIVE overKeys(_, _)
        overKeys(nodes, i) ==
            IF i > Len(nodes.keys) THEN nodes
            ELSE overKeys(overDeps(nodes, nodes.keys[i], 1), i + 1)
    IN overKeys(nodes0, 1)

\* [...currentPath.slice(cycleStart), dep]; cycleStart is 1-based here
cycleOfOpen(currentPath, cycleStart, dep) ==
    SubSeq(currentPath, cycleStart + 1, Len(currentPath)) \o <<dep>>

cycleOfWholePath(currentPath, cycleStart, dep) ==
    currentPath \o <<dep>>

cycleOf(currentPath, cycleStart, dep) ==
    SubSeq(currentPath, cycleStart, Len(currentPath)) \o <<dep>>

Arrow == <<"-", ">">>

\* the branch taken when dep is on the recursion stack, without the test of
\* the cycles recorded before
recordCycleAgain(st, currentPath, dep) ==
    LET cycleStart == IndexOf(currentPath, dep)
        cycle == cycleOf(currentPath, cycleStart, dep)
    IN IF cycleStart = 0 THEN st
       ELSE [st EXCEPT !.circular = Append(@, cycle)]

\* the branch taken when dep is on the recursion stack, without the edges
\* from a node to itself
recordCycleNoSelfLoop(st, currentPath, dep) ==
    LET cycleStart == IndexOf(currentPath, dep)
        cycle == cycleOf(currentPath, cycleStart, dep)
        cycleStr == Join(cycle, Arrow)
    IN IF cycleStart = 0 \/ cycleStart = Len(currentPath) THEN st
       ELSE IF \E c \in 1..Len(st.circular) : Join(st.circular[c], Arrow) = cycleStr THEN st
       ELSE [st EXCEPT !.circular = Append(@, cycle)]

\* the branch taken when dep is on the recursion stack
recordCycle(st, currentPath, dep) ==
    LET cycleStart == IndexOf(currentPath, dep)
        cycle == cycleOf(currentPath, cycleStart, dep)
        cycleStr == Join(cycle, Arrow)
    IN IF cycleStart = 0 THEN st
       ELSE IF \E c \in 1..Len(st.circular) : Join(st.circular[c], Arrow) = cycleStr THEN st
       ELSE [st EXCEPT !.circular = Append(@, cycle)]

\* recursionStack.delete(path)
leaveKept(st, path) == st

leave(st, path) == [st EXCEPT !.recursionStack = @ \ {path}]

\* visited.add(path); recursionStack.add(path); calls is the list of the
\* calls of dfs made so far, kept to count them
enter(st, path) ==
    [st EXCEPT !.visited = @ \cup {path},
               !.recursionStack = @ \cup {path},
               !.calls = Append(@, path)]

\* dfs(path, currentPath): visited, recursionStack and circular are shared by
\* all calls and threaded through st; currentPath is the caller's copy
RECURSIVE dfs(_, _, _, _)
dfs(nodes, st, path, callerPath) ==
    LET currentPath == Append(callerPath, path)
        entered == enter(st, path)
        deps == IF MapHas(nodes, path) THEN nodes.get[path].dependencies ELSE <<>>
        RECURSIVE loop(_, _)
        loop(i, s) ==
            IF i > Len(deps) THEN s
            ELSE IF deps[i] \notin s.visited
                 THEN loop(i + 1, dfs(nodes, s, deps[i], currentPath))
            ELSE IF deps[i] \in s.recursionStack
                 THEN loop(i + 1, recordCycle(s, currentPath, deps[i]))
            ELSE loop(i + 1, s)
        left == loop(1, entered)
    IN leave(left, path)

\* the loop over nodes.keys(), with the sets as they are when it ends
detection(nodes) ==
    LET RECURSIVE go(_, _)
        go(i, st) ==
            IF i > Len(nodes.keys) THEN st
            ELSE IF nodes.keys[i] \notin st.visited
                 THEN go(i + 1, dfs(nodes, st, nodes.keys[i], <<>>))
            ELSE go(i + 1, st)
    IN go(1, [visited |-> {}, recursionStack |-> {}, circular |-> <<>>, calls |-> <<>>])

detectCircularDependencies(nodes) == detection(nodes).circular

\* the missing-dependency loop
missingDependenciesOf(nodes) ==
    LET RECURSIVE overDeps(_, _, _)
        overDeps(path, j, acc) ==
            IF j > Len(nodes.get[path].dependencies) THEN acc
            ELSE LET dep == nodes.get[path].dependencies[j]
                 IN overDeps(path, j + 1,
                        IF ~MapHas(nodes, dep) /\ ~isExternalDependency(dep)
                        THEN Append(acc, [file |-> path, missing |-> dep])
                        ELSE acc)
        RECURSIVE overKeys(_, _)
        overKeys(i, acc) ==
            IF i > Len(nodes.keys) THEN acc
            ELSE overKeys(i + 1, overDeps(nodes.keys[i], 1, acc))
    IN overKeys(1, <<>>)

S_index == <<"i", "n", "d", "e", "x", ".">>
S_main == <<"m", "a", "i", "n", ".">>
S_app == <<"a", "p", "p", ".">>
S_src == <<"s", "r", "c", "/">>
S_page == <<"p", "a", "g", "e", ".">>
S_layout == <<"l", "a", "y", "o", "u", "t", ".">>
\* the endings accepted by (tsx?|jsx?)$
ScriptExts == {<<"t", "s">>, <<"t", "s", "x">>, <<"j", "s">>, <<"j", "s", "x">>}

isEntryPoint(path) ==
    \/ StartsWith(path, S_index)
    \/ StartsWith(path, S_main)
    \/ StartsWith(path, S_app)
    \/ StartsWith(path, S_src \o S_index)
    \/ StartsWith(path, S_src \o S_main)
    \/ \E e \in ScriptExts : EndsWith(path, S_page \o e)
    \/ \E e \in ScriptExts : EndsWith(path, S_layout \o e)

\* the unused-file loop
unusedFilesOfByDependencies(nodes) ==
    SelectSeq(nodes.keys,
              LAMBDA path : Len(nodes.get[path].dependencies) = 0 /\ ~isEntryPoint(path))

unusedFilesOf(nodes) ==
    SelectSeq(nodes.keys,
              LAMBDA path : Len(nodes.get[path].dependents) = 0 /\ ~isEntryPoint(path))

analyzeDependencies(allFiles) ==
    LET nodes == secondPass(firstPass(allFiles))
    IN [nodes |-> nodes,
        circularDependencies |-> detectCircularDependencies(nodes),
        missingDependencies |-> missingDependenciesOf(nodes),
        unusedFiles |-> unusedFilesOf(nodes)]

(***************************************************************************)
(* Inputs of the dependency analyzer.                                      *)
(***************************************************************************)
P_a == <<"a", ".", "t", "s">>
P_b == <<"b", ".", "t", "s">>
P_index == <<"i", "n", "d", "e", "x", ".", "t", "s">>
P_s_a == <<"s", "/", "a", ".", "t", "s">>
P_s_b == <<"s", "/", "b", ".", "t", "s">>
P_s_t_c == <<"s", "/", "t", "/", "c", ".", "t", "s">>
Paths == {P_a, P_b, P_index, P_s_a, P_s_b, P_s_t_c}

I_a == <<".", "/", "a">>
I_b == <<".", "/", "b">>
I_up_b == <<".", ".", "/", "b">>
I_missing == <<".", "/", "m">>
I_react == <<"r">>
Specifiers == {I_a, I_b, I_up_b, I_missing, I_react}

SeqsUpTo(S, n) == UNION {[1..m -> S] : m \in 0..n}

\* the sequences of n distinct elements of S
RECURSIVE DistinctSeqs(_, _)
DistinctSeqs(S, n) ==
    IF n = 0 THEN {<<>>}
    ELSE UNION {{<<x>> \o rest : rest \in DistinctSeqs(S \ {x}, n - 1)} : x \in S}

\* the sequences of n contents that hold at most budget statements together
RECURSIVE ContentSeqs(_, _)
ContentSeqs(n, budget) ==
    IF n = 0 THEN {<<>>}
    ELSE UNION {{<<c>> \o rest : rest \in ContentSeqs(n - 1, budget - Len(c))} :
                   c \in SeqsUpTo(Specifiers, budget)}

NoGraph == [nodes |-> EmptyMap, circularDependencies |-> <<>>,
            missingDependencies |-> <<>>, unusedFiles |-> <<>>]

ComplexityIdle == code = <<>> /\ complexity = 0 /\ ccpc = "idle"
QualityIdle == qfiles = <<>> /\ allBlocks = <<>> /\ duplicates = <<>> /\ qpc = "idle"
DepsIdle == files = <<>> /\ graph = NoGraph /\ pc = "idle"

NoReport == [duplicates |-> <<>>, deadCode |-> <<>>, redundantCode |-> <<>>,
             complexityIssues |-> <<>>]
NoRequest == [imports |-> <<>>, currentFile |-> <<>>]
NoOutcome == [kind |-> "none"]

IssuesIdle == issues = <<>>
ImportsIdle == source = <<>> /\ extracted = <<>> /\ ipc = "idle"
ReportIdle == report = NoReport
ResolveIdle == request = NoRequest /\ resolution = <<>>
OutcomeIdle == outcome = NoOutcome
LaterIdle == IssuesIdle /\ ImportsIdle /\ ReportIdle /\ ResolveIdle /\ OutcomeIdle

\* every input of at most MaxSize files and import statements, the files
\* having distinct paths
Init ==
    /\ \E n \in 0..MaxSize :
         \E ps \in DistinctSeqs(Paths, n) :
           \E cs \in ContentSeqs(n, MaxSize - n) :
             files = [i \in 1..n |-> [path |-> ps[i], content |-> cs[i]]]
    /\ graph = NoGraph
    /\ pc = "start"
    /\ ComplexityIdle
    /\ QualityIdle
    /\ LaterIdle

AnalyzeDependencies ==
    /\ pc = "start"
    /\ graph' = analyzeDependencies(files)
    /\ pc' = "done"
    /\ UNCHANGED <<files, code, complexity, ccpc, qfiles, allBlocks, duplicates, qpc, laterVars>>

Next == AnalyzeDependencies

Spec == Init /\ [][Next]_vars

(***************************************************************************)
(* Cyclomatic complexity.                                                  *)
(***************************************************************************)
\* \w of the regular expressions
WordChars ==
    {"a", "b", "c", "d", "e", "f", "g", "h", "i", "j", "k", "l", "m",
     "n", "o", "p", "q", "r", "s", "t", "u", "v", "w", "x", "y", "z",
     "A", "B", "C", "D", "E", "F", "G", "H", "I", "J", "K", "L", "M",
     "N", "O", "P", "Q", "R", "S", "T", "U", "V", "W", "X", "Y", "Z",
     "0", "1", "2", "3", "4", "5", "6", "7", "8", "9", "_"}

\* \s of the regular expressions
WhiteChars == {" ", "\n", "\t", "\r"}

IsWordAt(s, i) == i >= 1 /\ i <= Len(s) /\ s[i] \in WordChars
IsWhiteAt(s, i) == i >= 1 /\ i <= Len(s) /\ s[i] \in WhiteChars

\* \b between the characters i - 1 and i
BoundaryAt(s, i) == IsWordAt(s, i - 1) # IsWordAt(s, i)

LiteralAt(s, i, lit) == i + Len(lit) - 1 <= Len(s) /\ \A k \in 1..Len(lit) : s[i + k - 1] = lit[k]

\* the first position after a run of white space that starts at i
RECURSIVE SkipWhite(_, _)
SkipWhite(s, i) == IF IsWhiteAt(s, i) THEN SkipWhite(s, i + 1) ELSE i

\* the last position before a run of white space that ends at i
RECURSIVE SkipWhiteBack(_, _)
SkipWhiteBack(s, i) == IF IsWhiteAt(s, i) THEN SkipWhiteBack(s, i - 1) ELSE i

\* code.match(/\blit\b/g): the number of matches, scanned left to right
CountBounded(s, lit) ==
    LET RECURSIVE go(_, _)
        go(i, n) ==
            IF i > Len(s) THEN n
            ELSE IF LiteralAt(s, i, lit) /\ BoundaryAt(s, i) /\ BoundaryAt(s, i + Len(lit))
                 THEN go(i + Len(lit), n + 1)
            ELSE go(i + 1, n)
    IN go(1, 0)

K_if == <<"i", "f">>
K_else == <<"e", "l", "s", "e">>
K_while == <<"w", "h", "i", "l", "e">>
K_for == <<"f", "o", "r">>
K_case == <<"c", "a", "s", "e">>
K_catch == <<"c", "a", "t", "c", "h">>
K_and == <<"&", "&">>
K_or == <<"|", "|">>

\* the end (exclusive) of a match of /\belse\s+if\b/ at i, or 0
ElseIfEnd(s, i) ==
    LET w == i + Len(K_else)
        k == SkipWhite(s, w)
    IN IF /\ LiteralAt(s, i, K_else) /\ BoundaryAt(s, i)
          /\ k > w /\ LiteralAt(s, k, K_if) /\ BoundaryAt(s, k + Len(K_if))
       THEN k + Len(K_if)
       ELSE 0

CountElseIf(s) ==
    LET RECURSIVE go(_, _)
        go(i, n) ==
            IF i > Len(s) THEN n
            ELSE IF ElseIfEnd(s, i) # 0 THEN go(ElseIfEnd(s, i), n + 1)
            ELSE go(i + 1, n)
    IN go(1, 0)

\* the first line terminator at or after i, or Len(s) + 1
LineEnd(s, i) == Least({j \in i..Len(s) : s[j] \in {"\n", "\r"}} \cup {Len(s) + 1})

\* the position of the ":" that ends the match of /\?\s*.*\s*:/ at the "?"
\* at i, or 0: the ":" after the white space that follows the line of the
\* first non-blank character, else the last ":" of that line
TernaryEnd(s, i) ==
    LET a == SkipWhite(s, i + 1)
        e == LineEnd(s, a)
        k == SkipWhite(s, e)
        inLine == {j \in a..(e - 1) : s[j] = ":"}
    IN IF s[i] # "?" THEN 0
       ELSE IF k <= Len(s) /\ s[k] = ":" THEN k
       ELSE IF inLine # {} THEN CHOOSE j \in inLine : \A h \in inLine : h <= j
       ELSE 0

CountTernary(s) ==
    LET RECURSIVE go(_, _)
        go(i, n) ==
            IF i > Len(s) THEN n
            ELSE IF TernaryEnd(s, i) # 0 THEN go(TernaryEnd(s, i) + 1, n + 1)
            ELSE go(i + 1, n)
    IN go(1, 0)

calculateCyclomaticComplexity(s) ==
    1 + CountBounded(s, K_if)
      + CountElseIf(s)
      + CountBounded(s, K_while)
      + CountBounded(s, K_for)
      + CountBounded(s, K_case)
      + CountBounded(s, K_catch)
      + CountBounded(s, K_and)
      + CountBounded(s, K_or)
      + CountTernary(s)

\* the lexical tokens function bodies are made of
Tokens == {K_if, K_and, <<" ">>, <<"a">>, <<"?">>, <<":">>}

RECURSIVE Concat(_, _)
Concat(parts, i) == IF i > Len(parts) THEN <<>> ELSE parts[i] \o Concat(parts, i + 1)

InitComplexity ==
    /\ \E toks \in SeqsUpTo(Tokens, MaxTokens) : code = Concat(toks, 1)
    /\ complexity = 0
    /\ ccpc = "start"
    /\ DepsIdle
    /\ QualityIdle
    /\ LaterIdle

CalculateCyclomaticComplexity ==
    /\ ccpc = "start"
    /\ complexity' = calculateCyclomaticComplexity(code)
    /\ ccpc' = "done"
    /\ UNCHANGED <<files, graph, pc, code, qfiles, allBlocks, duplicates, qpc, laterVars>>

NextComplexity == CalculateCyclomaticComplexity

SpecComplexity == InitComplexity /\ [][NextComplexity]_vars

(***************************************************************************)
(* Duplicate detection.                                                    *)
(***************************************************************************)
\* const minLines = 5
minLines == 5
\* block.trim().length > 50
MinBlockLength == 50

\* String.prototype.trim
Trim(s) ==
    LET first == SkipWhite(s, 1)
        last == SkipWhiteBack(s, Len(s))
    IN IF first > Len(s) THEN <<>> ELSE SubSeq(s, first, last)

\* replace(/\s+/g, " "): the first character of a run of white space becomes
\* a space, the others go
CollapseWhite(s) ==
    LET kept == SelectSeq(Indices(s), LAMBDA i : ~(IsWhiteAt(s, i) /\ IsWhiteAt(s, i - 1)))
    IN [k \in 1..Len(kept) |-> IF IsWhiteAt(s, kept[k]) THEN " " ELSE s[kept[k]]]

\* replace(/\/\/.*/g, ""): everything from a "//" to the end of its line goes
StripLineComments(s) ==
    LET starts == {j \in 1..Len(s) : LiteralAt(s, j, <<"/", "/">>)}
        ends == {j \in 1..Len(s) : s[j] \in {"\n", "\r"}}
        kept == SelectSeq(Indices(s),
                          LAMBDA i : ~\E j \in starts :
                                        j <= i /\ ~\E n \in ends : j < n /\ n <= i)
    IN [k \in 1..Len(kept) |-> s[kept[k]]]

\* replace(/\/\*[\s\S]*?\*\//g, ""): from each "/*" that has a "*/" after it
\* to the first such "*/", matches taken left to right
StripBlockComments(s) ==
    LET closes == {j \in 1..Len(s) : LiteralAt(s, j, <<"*", "/">>)}
        opens == {j \in 1..Len(s) : LiteralAt(s, j, <<"/", "*">>)
                                      /\ \E c \in closes : c >= j + 2}
        RECURSIVE go(_, _)
        go(from, acc) ==
            LET next == {o \in opens : o >= from}
                open == Least(next)
                close == Least({c \in closes : c >= open + 2})
            IN IF next = {} THEN acc \o SubSeq(s, from, Len(s))
               ELSE go(close + 2, acc \o SubSeq(s, from, open - 1))
    IN go(1, <<>>)

normalizeCode(c) == Trim(StripBlockComments(StripLineComments(CollapseWhite(c))))

\* matches / maxLen as the fraction [num, den]; 1 is [1, 1]
calculateSimilarityByFirst(code1, code2) ==
    LET maxLen == Max(Len(code1), Len(code2))
        minLen == Min(Len(code1), Len(code2))
        matches == Cardinality({i \in 1..minLen : code1[i] = code2[i]})
    IN IF maxLen = 0 THEN [num |-> 1, den |-> 1]
       ELSE [num |-> matches, den |-> Len(code1)]

calculateSimilarity(code1, code2) ==
    LET maxLen == Max(Len(code1), Len(code2))
        minLen == Min(Len(code1), Len(code2))
        matches == Cardinality({i \in 1..minLen : code1[i] = code2[i]})
    IN IF maxLen = 0 THEN [num |-> 1, den |-> 1]
       ELSE [num |-> matches, den |-> maxLen]

\* similarity > 0.8
AboveThreshold(sim) == 5 * sim.num > 4 * sim.den

\* the windows of one file that pass the length test
blocksOfFile(file) ==
    LET lines == Split(file.content, "\n")
        RECURSIVE go(_, _)
        go(i, acc) ==
            IF ~(i < Len(lines) - minLines) THEN acc
            ELSE LET block == Join(SubSeq(lines, i + 1, i + minLines), <<"\n">>)
                 IN go(i + 1,
                       IF Len(Trim(block)) > MinBlockLength
                       THEN Append(acc, [content |-> normalizeCode(block),
                                         startLine |-> i + 1,
                                         endLine |-> i + minLines,
                                         file |-> file.path])
                       ELSE acc)
    IN go(0, <<>>)

extractBlocks(fs) ==
    LET RECURSIVE go(_, _)
        go(f, acc) == IF f > Len(fs) THEN acc ELSE go(f + 1, acc \o blocksOfFile(fs[f]))
    IN go(1, <<>>)

\* the test of one pair of windows
isDuplicatePairAnyFile(similarity, b1, b2) == AboveThreshold(similarity)

isDuplicatePair(similarity, b1, b2) == AboveThreshold(similarity) /\ b1.file # b2.file

\* the comparison loops over i < j
compareBlocks(blocks) ==
    LET RECURSIVE inner(_, _, _)
        inner(i, j, acc) ==
            IF j > Len(blocks) THEN acc
            ELSE LET similarity == calculateSimilarity(blocks[i].content, blocks[j].content)
                 IN inner(i, j + 1,
                          IF isDuplicatePair(similarity, blocks[i], blocks[j])
                          THEN Append(acc, [blocks |-> <<blocks[i], blocks[j]>>,
                                            similarity |-> similarity,
                                            lines |-> minLines])
                          ELSE acc)
        RECURSIVE outer(_, _)
        outer(i, acc) == IF i > Len(blocks) THEN acc ELSE outer(i + 1, inner(i, i + 1, acc))
    IN outer(1, <<>>)

findDuplicateCode(fs) == compareBlocks(extractBlocks(fs))

\* the lines the files are made of
L_one == <<"x", " ", "=", " ", "y", " ", "+", " ", "1", ";">>
L_two == <<"x", " ", "=", " ", "/", "*", "c", "*", "/", " ", "2", ";">>
L_note == <<"/", "/", " ", "n", "o", "t", "e">>
Lines == {L_one, L_two, L_note}

\* the contents of n lines: one line repeated, then another one repeated
ContentsOfLength(n) ==
    {Join([i \in 1..n |-> IF i <= p THEN x ELSE y], <<"\n">>) :
        <<x, y, p>> \in Lines \X Lines \X (0..n)}

\* files too short for a window are represented by the empty file
QContents == UNION {ContentsOfLength(n) : n \in {0} \cup (minLines..MaxLines)}

InitQuality ==
    /\ \E c1, c2 \in QContents :
         qfiles = << [path |-> P_a, content |-> c1], [path |-> P_b, content |-> c2] >>
    /\ allBlocks = <<>>
    /\ duplicates = <<>>
    /\ qpc = "start"
    /\ DepsIdle
    /\ ComplexityIdle
    /\ LaterIdle

FindDuplicateCode ==
    /\ qpc = "start"
    /\ allBlocks' = extractBlocks(qfiles)
    /\ duplicates' = compareBlocks(allBlocks')
    /\ qpc' = "done"
    /\ UNCHANGED <<files, graph, pc, code, complexity, ccpc, qfiles, laterVars>>

NextQuality == FindDuplicateCode

SpecQuality == InitQuality /\ [][NextQuality]_vars

(***************************************************************************)
(* Properties of the dependency analyzer.                                  *)
(***************************************************************************)
Keys == Range(graph.nodes.keys)
Node(p) == graph.nodes.get[p]
FilePaths == {files[i].path : i \in 1..Len(files)}
IsRelative(s) == StartsWith(s, <<".">>)

\* C1: after analyzeDependencies returns, the set of paths in n.dependents is,
\* for every node n, the set of the paths of the nodes whose dependencies
\* contain n.path.
C1_DependentsAreInverse ==
    pc = "done" =>
        \A n \in Keys :
            Range(Node(n).dependents) = {m \in Keys : n \in Range(Node(m).dependencies)}

\* a node imported by two other files
C1_Witness ==
    /\ pc = "done"
    /\ \E n \in Keys : Cardinality(Range(Node(n).dependents) \ {n}) >= 2

\* the (file, specifier) pairs of relative specifiers none of whose
\* candidates is a file of the input
UnresolvedRelative ==
    {[file |-> files[i].path, missing |-> s] : <<i, s>> \in
        {x \in (1..Len(files)) \X Specifiers :
            /\ x[2] \in Range(extractImports(files[x[1]].content))
            /\ IsRelative(x[2])
            /\ \A k \in 1..Len(Suffixes) : possiblePaths(x[2], files[x[1]].path)[k] \notin FilePaths}}

\* C2: the missing list holds an entry {file f, specifier s} exactly when s
\* is a relative specifier of f none of whose candidates is in the file set.
C2_MissingExactlyUnresolved ==
    pc = "done" => Range(graph.missingDependencies) = UnresolvedRelative

IsClosedLoopOf(cycle, a, b) ==
    /\ Len(cycle) = 3
    /\ cycle[1] = cycle[3]
    /\ Range(cycle) = {a, b}

\* C3: for {a.ts: import "./b", b.ts: import "./a"} the analysis returns one
\* cycle, a closed loop of length 3 over both files, nothing missing and
\* nothing unused.
C3_RootPairExample ==
    (pc = "done" /\ files = << [path |-> P_a, content |-> <<I_b>>],
                               [path |-> P_b, content |-> <<I_a>>] >>) =>
        /\ Len(graph.circularDependencies) = 1
        /\ IsClosedLoopOf(graph.circularDependencies[1], P_a, P_b)
        /\ graph.missingDependencies = <<>>
        /\ graph.unusedFiles = <<>>

\* the graph has exactly the nodes A and B, A depending on B and B on A
IsMutualPair ==
    /\ Len(graph.nodes.keys) = 2
    /\ Range(Node(graph.nodes.keys[1]).dependencies) = {graph.nodes.keys[2]}
    /\ Range(Node(graph.nodes.keys[2]).dependencies) = {graph.nodes.keys[1]}

\* C4: on a graph of two nodes that depend on each other, exactly one cycle
\* is returned; it contains both nodes and starts at the node iterated first.
C4_MutualPairOneCycle ==
    (pc = "done" /\ IsMutualPair) =>
        /\ Len(graph.circularDependencies) = 1
        /\ Range(graph.circularDependencies[1]) = Keys
        /\ graph.circularDependencies[1][1] = graph.nodes.keys[1]

C4_Witness == pc = "done" /\ IsMutualPair

\* the graph with the node p renamed to q in the keys and in every edge
Renamed(nodes, p, q) ==
    LET to(x) == IF x = p THEN q ELSE x
        from(x) == IF x = q THEN p ELSE x
        toAll(a) == [i \in 1..Len(a) |-> to(a[i])]
    IN [keys |-> toAll(nodes.keys),
        get |-> [x \in {to(k) : k \in Range(nodes.keys)} |->
                    [path |-> x,
                     imports |-> nodes.get[from(x)].imports,
                     dependencies |-> toAll(nodes.get[from(x)].dependencies),
                     dependents |-> toAll(nodes.get[from(x)].dependents)]]]

\* C5: a path is in unusedFiles exactly when its node has no dependents and
\* the path matches no entry-point pattern; renaming an unused file to
\* index.ts, all edges kept, removes it from the unused files.
C5_UnusedExactly ==
    pc = "done" =>
        /\ \A p \in Keys :
              p \in Range(graph.unusedFiles) <=> (Len(Node(p).dependents) = 0 /\ ~isEntryPoint(p))
        /\ Range(graph.unusedFiles) \subseteq Keys
        /\ \A p \in Range(graph.unusedFiles) :
              P_index \notin Keys =>
                  P_index \notin Range(unusedFilesOf(Renamed(graph.nodes, p, P_index)))

\* an unused file in an input without index.ts, next to a file that is used
C5_Witness ==
    /\ pc = "done"
    /\ P_index \notin Keys
    /\ graph.unusedFiles # <<>>
    /\ \E p \in Keys : Len(Node(p).dependents) > 0

\* the candidates of a specifier resolved against the directory of the
\* importing file: the components of the directory, then those of the
\* specifier, ".." popping one component and "." being a no-op
ExpectedCandidates(imp, currentFile) ==
    LET base == normalizePath(Join(DropLast(Split(currentFile, "/")) \o Split(imp, "/"), <<"/">>))
    IN {base \o Suffixes[k] : k \in 1..Len(Suffixes)}

\* C6: a relative specifier is resolved against the directory D of the
\* importing file, for every D including the root: a file of the input at one
\* of the candidates under D becomes a dependency.
C6_ResolvedAgainstDirectory ==
    pc = "done" =>
        \A i \in 1..Len(files) :
            \A s \in Range(extractImports(files[i].content)) :
                (IsRelative(s) /\ ExpectedCandidates(s, files[i].path) \cap FilePaths # {}) =>
                    ExpectedCandidates(s, files[i].path)
                        \cap Range(Node(files[i].path).dependencies) # {}

(***************************************************************************)
(* Properties of the complexity estimate.                                  *)
(***************************************************************************)
\* the positions at which lit occurs in s
Occurrences(s, lit) == {i \in 1..Len(s) : LiteralAt(s, i, lit)}

\* exactly two `if` keywords, one `&&` between two operands (white space
\* allowed on either side), no other `&` and no ternary
TwoIfsOneAnd(s) ==
    /\ CountBounded(s, K_if) = 2
    /\ Cardinality(Occurrences(s, K_and)) = 1
    /\ Cardinality(Occurrences(s, <<"&">>)) = 2
    /\ \A i \in Occurrences(s, K_and) :
          IsWordAt(s, SkipWhiteBack(s, i - 1)) /\ IsWordAt(s, SkipWhite(s, i + 2))
    /\ Occurrences(s, <<"?">>) = {}
    /\ Occurrences(s, <<":">>) = {}

\* C7: a body with exactly two `if` keywords, one `&&` and no other decision
\* token has complexity 4, whatever the white space around the `&&`.
C7_TwoIfsOneAndIsFour ==
    (ccpc = "done" /\ TwoIfsOneAnd(code)) => complexity = 4

(***************************************************************************)
(* Properties of duplicate detection.                                      *)
(***************************************************************************)
Reverse(a) == [i \in 1..Len(a) |-> a[Len(a) + 1 - i]]

\* the findings as unordered pairs of windows with their scores
MatchedPairs(found) ==
    {[pair |-> Range(found[k].blocks), similarity |-> found[k].similarity] : k \in 1..Len(found)}

\* C8: calculateSimilarity(a, b) = calculateSimilarity(b, a) for all
\* normalized blocks, and swapping the two files of the input yields the same
\* set of matched block pairs with the same similarity scores.
C8_DuplicateDetectionSymmetric ==
    qpc = "done" =>
        /\ \A i, j \in 1..Len(allBlocks) :
              i < j => calculateSimilarity(allBlocks[i].content, allBlocks[j].content)
                         = calculateSimilarity(allBlocks[j].content, allBlocks[i].content)
        /\ MatchedPairs(findDuplicateCode(Reverse(qfiles))) = MatchedPairs(duplicates)

\* a reported pair of windows whose normalized contents differ in length
C8_Witness ==
    /\ qpc = "done"
    /\ \E k \in 1..Len(duplicates) :
          Len(duplicates[k].blocks[1].content) # Len(duplicates[k].blocks[2].content)

\* C9: every finding holds exactly two blocks, from two different files, with
\* a similarity above 0.8 and at most 1, and no unordered pair of windows is
\* reported twice.
C9_FindingsCrossFileOnce ==
    qpc = "done" =>
        /\ \A k \in 1..Len(duplicates) :
              /\ Len(duplicates[k].blocks) = 2
              /\ Range(duplicates[k].blocks) \subseteq Range(allBlocks)
              /\ duplicates[k].blocks[1].file # duplicates[k].blocks[2].file
              /\ 5 * duplicates[k].similarity.num > 4 * duplicates[k].similarity.den
              /\ duplicates[k].similarity.num <= duplicates[k].similarity.den
        /\ \A k, l \in 1..Len(duplicates) :
              k # l => Range(duplicates[k].blocks) # Range(duplicates[l].blocks)

\* two windows of one file that are alike, and findings with a score below 1
C9_Witness ==
    /\ qpc = "done"
    /\ \E i, j \in 1..Len(allBlocks) :
          /\ i < j
          /\ allBlocks[i].file = allBlocks[j].file
          /\ AboveThreshold(calculateSimilarity(allBlocks[i].content, allBlocks[j].content))
    /\ Len(duplicates) >= 2
    /\ \E k \in 1..Len(duplicates) : duplicates[k].similarity.num < duplicates[k].similarity.den

\* C10: every window that takes part in the comparison has a normalized
\* content of at least 50 characters, and no finding holds a block whose
\* normalized content is empty.
C10_ComparedBlocksLongEnough ==
    qpc = "done" =>
        /\ \A i \in 1..Len(allBlocks) : Len(allBlocks[i].content) >= MinBlockLength
        /\ \A k \in 1..Len(duplicates) :
              \A b \in Range(duplicates[k].blocks) : b.content # <<>>

(***************************************************************************)
(* getDependencyIssues.                                                    *)
(***************************************************************************)
\* the separator of cycle.join in the message; its three characters outside
\* ASCII are written by their code points
MessageArrow == <<" ", "U+00E2", "U+2020", "U+2019", " ">>

M_circular ==
    <<"C", "i", "r", "c", "u", "l", "a", "r", " ", "d", "e", "p", "e", "n",
      "d", "e", "n", "c", "y", " ", "d", "e", "t", "e", "c", "t", "e", "d",
      ":", " ">>
M_missing ==
    <<"M", "i", "s", "s", "i", "n", "g", " ", "d", "e", "p", "e", "n", "d",
      "e", "n", "c", "y", " ", "\"">>
M_in == <<"\"", " ", "i", "n", " ">>
M_file == <<"F", "i", "l", "e", " ", "\"">>
M_notImported ==
    <<"\"", " ", "i", "s", " ", "n", "o", "t", " ", "i", "m", "p", "o",
      "r", "t", "e", "d", " ", "b", "y", " ", "a", "n", "y", " ", "o", "t",
      "h", "e", "r", " ", "f", "i", "l", "e">>

circularIssue(cycle) ==
    [type |-> "circular", severity |-> "error",
     message |-> M_circular \o Join(cycle, MessageArrow), files |-> cycle]

missingIssue(entry) ==
    [type |-> "missing", severity |-> "error",
     message |-> M_missing \o entry.missing \o M_in \o entry.file,
     files |-> <<entry.file>>]

unusedIssue(file) ==
    [type |-> "unused", severity |-> "warning",
     message |-> M_file \o file \o M_notImported, files |-> <<file>>]

\* the three loops, the unused files before the missing dependencies
getDependencyIssuesUnusedFirst(g) ==
    [i \in 1..Len(g.circularDependencies) |-> circularIssue(g.circularDependencies[i])]
    \o [i \in 1..Len(g.unusedFiles) |-> unusedIssue(g.unusedFiles[i])]
    \o [i \in 1..Len(g.missingDependencies) |-> missingIssue(g.missingDependencies[i])]

getDependencyIssues(g) ==
    [i \in 1..Len(g.circularDependencies) |-> circularIssue(g.circularDependencies[i])]
    \o [i \in 1..Len(g.missingDependencies) |-> missingIssue(g.missingDependencies[i])]
    \o [i \in 1..Len(g.unusedFiles) |-> unusedIssue(g.unusedFiles[i])]

\* entries of the three lists of a graph together
MaxIssues == 3

CycleEntries == {<<P_a, P_b, P_a>>, <<P_s_a, P_s_a>>}
MissingEntries == {[file |-> P_a, missing |-> I_missing], [file |-> P_s_b, missing |-> I_b]}
UnusedEntries == {P_a, P_s_t_c}

\* every graph whose three lists hold at most MaxIssues entries together
InitIssues ==
    /\ \E c \in SeqsUpTo(CycleEntries, MaxIssues) :
         \E m \in SeqsUpTo(MissingEntries, MaxIssues - Len(c)) :
           \E u \in SeqsUpTo(UnusedEntries, MaxIssues - Len(c) - Len(m)) :
             graph = [nodes |-> EmptyMap, circularDependencies |-> c,
                      missingDependencies |-> m, unusedFiles |-> u]
    /\ files = <<>>
    /\ pc = "start"
    /\ issues = <<>>
    /\ ComplexityIdle /\ QualityIdle
    /\ ImportsIdle /\ ReportIdle /\ ResolveIdle /\ OutcomeIdle

GetDependencyIssues ==
    /\ pc = "start"
    /\ issues' = getDependencyIssues(graph)
    /\ pc' = "reported"
    /\ UNCHANGED <<files, graph, code, complexity, ccpc, qfiles, allBlocks, duplicates, qpc,
                   source, extracted, ipc, report, request, resolution, outcome>>

NextIssues == GetDependencyIssues

SpecIssues == InitIssues /\ [][NextIssues]_vars

\* C11: getDependencyIssues returns one issue per cycle (circular, error,
\* files = the cycle), then one per missing entry (missing, error, files =
\* [file]), then one per unused file (unused, warning, files = [file]), in
\* that order, and no other issue.
C11_IssuesInOrder ==
    pc = "reported" =>
        LET c == graph.circularDependencies
            m == graph.missingDependencies
            u == graph.unusedFiles
        IN /\ Len(issues) = Len(c) + Len(m) + Len(u)
           /\ \A i \in 1..Len(c) :
                /\ issues[i].type = "circular"
                /\ issues[i].severity = "error"
                /\ issues[i].files = c[i]
           /\ \A i \in 1..Len(m) :
                /\ issues[Len(c) + i].type = "missing"
                /\ issues[Len(c) + i].severity = "error"
                /\ issues[Len(c) + i].files = <<m[i].file>>
           /\ \A i \in 1..Len(u) :
                /\ issues[Len(c) + Len(m) + i].type = "unused"
                /\ issues[Len(c) + Len(m) + i].severity = "warning"
                /\ issues[Len(c) + Len(m) + i].files = <<u[i]>>

\* C11 witness: a graph with a cycle, a missing entry and an unused file has
\* been reported.
C11_Witness ==
    /\ pc = "reported"
    /\ graph.circularDependencies # <<>>
    /\ graph.missingDependencies # <<>>
    /\ graph.unusedFiles # <<>>
    /\ Len(issues) = 3

(***************************************************************************)
(* extractImports of the dependency analyzer, on the text of a file.       *)
(* The operator extractImports above is its restriction to contents that   *)
(* are a list of `import "X"` statements, given by their specifiers.       *)
(***************************************************************************)
Quotes == {"'", "\""}

\* [\w*\s{},]
ImportClauseChars == WordChars \cup WhiteChars \cup {"*", "{", "}", ","}
\* [\w.]
DottedChars == WordChars \cup {"."}
\* [\w\\]
NamespaceChars == WordChars \cup {"\\"}

K_import == <<"i", "m", "p", "o", "r", "t">>
K_from == <<"f", "r", "o", "m">>
K_require == <<"r", "e", "q", "u", "i", "r", "e">>
K_require_once == <<"r", "e", "q", "u", "i", "r", "e", "_", "o", "n", "c", "e">>
K_use == <<"u", "s", "e">>

\* the first position from i on whose character is outside the class C
SkipClass(s, i, C) == Least({j \in i..(Len(s) + 1) : j = Len(s) + 1 \/ s[j] \notin C})

\* ^ under the m flag
LineStartAt(s, i) == i = 1 \/ (i >= 2 /\ i <= Len(s) + 1 /\ s[i - 1] = "\n")

\* $ without the m flag
EndOfInputAt(s, i) == i = Len(s) + 1

\* ['"]([^'"]+)['"] with the opening quote at q: the position of the closing
\* quote, 0 when there is no match
QuotedEnd(s, q) ==
    IF q >= 1 /\ q <= Len(s) /\ s[q] \in Quotes
    THEN LET c == SkipClass(s, q + 1, {s[j] : j \in 1..Len(s)} \ Quotes)
         IN IF c <= Len(s) /\ c >= q + 2 THEN c ELSE 0
    ELSE 0

\* the loop `while ((match = regex.exec(content)) !== null) push(match[1])`
\* of a g-flagged regex: ends[i] is the last position of the match that
\* starts at i (0: none), captures[i] its group 1
ExecAll(s, ends, captures) ==
    LET RECURSIVE go(_, _)
        go(from, acc) ==
            LET starts == {i \in from..Len(s) : ends[i] > 0}
            IN IF starts = {} THEN acc
               ELSE go(ends[Least(starts)] + 1, Append(acc, captures[Least(starts)]))
    IN go(1, <<>>)

\* /import\s+(?:[\w*\s{},]*\s+from\s+)?['"]([^'"]+)['"]/g : the opening
\* quote is the first character after `import` outside [\w*\s{},]; what lies
\* between is white space only, or white space, a clause, white space,
\* `from`, white space
es6Quote(s, i) ==
    IF LiteralAt(s, i, K_import)
    THEN LET a == i + Len(K_import)
             z == SkipClass(s, a, ImportClauseChars)
             t == SkipWhiteBack(s, z - 1)
             bare == z > a /\ SkipWhite(s, a) = z
             clause == /\ IsWhiteAt(s, z - 1)
                       /\ t - 3 >= a + 2
                       /\ LiteralAt(s, t - 3, K_from)
                       /\ IsWhiteAt(s, t - 4)
                       /\ IsWhiteAt(s, a)
         IN IF bare \/ clause THEN z ELSE 0
    ELSE 0

es6End(s, i) == IF es6Quote(s, i) = 0 THEN 0 ELSE QuotedEnd(s, es6Quote(s, i))
es6Capture(s, i) == SubSeq(s, es6Quote(s, i) + 1, es6End(s, i) - 1)

\* /keyword\s*$$\s*['"]([^'"]+)['"]\s*$$/g : after the keyword and white
\* space the pattern asks for the end of the input, twice, and then for a
\* quote
anchoredQuote(s, i, keyword) ==
    LET p == SkipWhite(s, i + Len(keyword))
    IN IF LiteralAt(s, i, keyword) /\ EndOfInputAt(s, p) /\ p <= Len(s) /\ s[p] \in Quotes
       THEN p ELSE 0

anchoredEnd(s, i, keyword) ==
    LET q == anchoredQuote(s, i, keyword)
        c == IF q = 0 THEN 0 ELSE QuotedEnd(s, q)
    IN IF c > 0 /\ EndOfInputAt(s, SkipWhite(s, c + 1)) THEN Len(s) ELSE 0

anchoredCapture(s, i, keyword) ==
    SubSeq(s, anchoredQuote(s, i, keyword) + 1,
           QuotedEnd(s, anchoredQuote(s, i, keyword)) - 1)

dynamicImportEnd(s, i) == anchoredEnd(s, i, K_import)
dynamicImportCapture(s, i) == anchoredCapture(s, i, K_import)
requireEnd(s, i) == anchoredEnd(s, i, K_require)
requireCapture(s, i) == anchoredCapture(s, i, K_require)
phpRequireEnd(s, i) == Max(anchoredEnd(s, i, K_require_once), anchoredEnd(s, i, K_require))
phpRequireCapture(s, i) ==
    IF anchoredEnd(s, i, K_require_once) > 0 THEN anchoredCapture(s, i, K_require_once)
    ELSE anchoredCapture(s, i, K_require)

\* /^(?:from\s+([\w.]+)\s+)?import\s+/gm : the position of `import`
\* when the from-group takes part in the match at i, 0 otherwise
pythonFromImport(s, i) ==
    LET m == SkipWhite(s, i + Len(K_from))
        e == SkipClass(s, m, DottedChars)
        k == SkipWhite(s, e)
    IN IF /\ LineStartAt(s, i) /\ LiteralAt(s, i, K_from)
          /\ m > i + Len(K_from) /\ e > m /\ k > e
          /\ LiteralAt(s, k, K_import) /\ IsWhiteAt(s, k + Len(K_import))
       THEN k ELSE 0

pythonImportEnd(s, i) ==
    IF pythonFromImport(s, i) > 0
    THEN SkipWhite(s, pythonFromImport(s, i) + Len(K_import)) - 1
    ELSE IF LineStartAt(s, i) /\ LiteralAt(s, i, K_import) /\ IsWhiteAt(s, i + Len(K_import))
    THEN SkipWhite(s, i + Len(K_import)) - 1
    ELSE 0

\* group 1, <<>> when the group took no part (match[1] undefined)
pythonImportCapture(s, i) ==
    IF pythonFromImport(s, i) > 0
    THEN LET m == SkipWhite(s, i + Len(K_from))
         IN SubSeq(s, m, SkipClass(s, m, DottedChars) - 1)
    ELSE <<>>

\* /^import\s+([\w.]+);/gm
javaImportEnd(s, i) ==
    LET m == SkipWhite(s, i + Len(K_import))
        e == SkipClass(s, m, DottedChars)
    IN IF /\ LineStartAt(s, i) /\ LiteralAt(s, i, K_import)
          /\ m > i + Len(K_import) /\ e > m /\ e <= Len(s) /\ s[e] = ";"
       THEN e ELSE 0

javaImportCapture(s, i) ==
    LET m == SkipWhite(s, i + Len(K_import))
    IN SubSeq(s, m, SkipClass(s, m, DottedChars) - 1)

\* /^use\s+([\w\\]+)/gm
phpUseEnd(s, i) ==
    LET m == SkipWhite(s, i + Len(K_use))
        e == SkipClass(s, m, NamespaceChars)
    IN IF LineStartAt(s, i) /\ LiteralAt(s, i, K_use) /\ m > i + Len(K_use) /\ e > m
       THEN e - 1 ELSE 0

phpUseCapture(s, i) ==
    LET m == SkipWhite(s, i + Len(K_use))
    IN SubSeq(s, m, SkipClass(s, m, NamespaceChars) - 1)

extractImportsFrom(content) ==
    LET at == 1..Len(content)
    IN Unique(
         ExecAll(content, [i \in at |-> es6End(content, i)],
                 [i \in at |-> es6Capture(content, i)])
         \o ExecAll(content, [i \in at |-> dynamicImportEnd(content, i)],
                    [i \in at |-> dynamicImportCapture(content, i)])
         \o ExecAll(content, [i \in at |-> requireEnd(content, i)],
                    [i \in at |-> requireCapture(content, i)])
         \o SelectSeq(ExecAll(content, [i \in at |-> pythonImportEnd(content, i)],
                              [i \in at |-> pythonImportCapture(content, i)]),
                      LAMBDA c : c # <<>>)
         \o ExecAll(content, [i \in at |-> javaImportEnd(content, i)],
                    [i \in at |-> javaImportCapture(content, i)])
         \o ExecAll(content, [i \in at |-> phpUseEnd(content, i)],
                    [i \in at |-> phpUseCapture(content, i)])
         \o ExecAll(content, [i \in at |-> phpRequireEnd(content, i)],
                    [i \in at |-> phpRequireCapture(content, i)]))

\* statements in the text given to extractImports
MaxStatements == 2

\* the forms of import statement, for a specifier X
bareImport(X) == <<"i", "m", "p", "o", "r", "t", " ", "\"">> \o X \o <<"\"">>
importFrom(X) ==
    <<"i", "m", "p", "o", "r", "t", " ", "a", " ", "f", "r", "o", "m", " ", "'">>
    \o X \o <<"'">>
dynamicImport(X) == <<"i", "m", "p", "o", "r", "t", "(", "\"">> \o X \o <<"\"", ")">>
requireCall(X) == <<"r", "e", "q", "u", "i", "r", "e", "(", "\"">> \o X \o <<"\"", ")">>
pythonImport(X) ==
    <<"f", "r", "o", "m", " ">> \o X \o <<" ", "i", "m", "p", "o", "r", "t", " ", "a">>
javaImport(X) == <<"i", "m", "p", "o", "r", "t", " ">> \o X \o <<";">>
phpUse(X) == <<"u", "s", "e", " ">> \o X

I_module == <<"m", ".", "n">>
I_namespace == <<"M", "\\", "N">>

ScriptSpecifiers == {I_a, I_react}

ImportStatements ==
    UNION {{bareImport(X), importFrom(X), dynamicImport(X), requireCall(X)} :
              X \in ScriptSpecifiers}
    \cup {pythonImport(I_module), javaImport(I_module), phpUse(I_namespace)}

\* every text of at most MaxStatements statements, one per line
InitImports ==
    /\ \E stmts \in SeqsUpTo(ImportStatements, MaxStatements) :
         source = Join(stmts, <<"\n">>)
    /\ extracted = <<>>
    /\ ipc = "start"
    /\ DepsIdle /\ ComplexityIdle /\ QualityIdle
    /\ IssuesIdle /\ ReportIdle /\ ResolveIdle /\ OutcomeIdle

ExtractImports ==
    /\ ipc = "start"
    /\ extracted' = extractImportsFrom(source)
    /\ ipc' = "done"
    /\ UNCHANGED <<files, graph, pc, code, complexity, ccpc, qfiles, allBlocks, duplicates,
                   qpc, issues, source, report, request, resolution, outcome>>

NextImports == ExtractImports

SpecImports == InitImports /\ [][NextImports]_vars

Contains(s, lit) == \E i \in 1..Len(s) : LiteralAt(s, i, lit)

\* C12: extractImports returns the specifier X of every `import ... from
\* "X"`, of every dynamic `import("X")` and of every `require("X")` in the
\* content.
C12_EveryImportFormExtracted ==
    ipc = "done" =>
        \A X \in ScriptSpecifiers :
            \A form \in {importFrom(X), dynamicImport(X), requireCall(X)} :
                Contains(source, form) => X \in Range(extracted)

\* the two models of extractImports agree: on a text of `import "X"`
\* statements the result is the list of the distinct specifiers
BareImportsAgree ==
    ipc = "done" =>
        \A specs \in SeqsUpTo(ScriptSpecifiers, MaxStatements) :
            source = Join([k \in 1..Len(specs) |-> bareImport(specs[k])], <<"\n">>)
                => extracted = extractImports(specs)

(***************************************************************************)
(* The extractors of the code-quality analyzer: extractImports (the one    *)
(* of the quality analyzer, called extractImportNames here),               *)
(* extractUsedIdentifiers, extractFunctions, extractVariables, countUsages.*)
(* Each pattern is matched on one line, as line.match does.                *)
(***************************************************************************)
K_function == <<"f", "u", "n", "c", "t", "i", "o", "n">>
K_const == <<"c", "o", "n", "s", "t">>
K_let == <<"l", "e", "t">>
K_var == <<"v", "a", "r">>
K_def == <<"d", "e", "f">>
K_as == <<"a", "s">>
K_class == <<"c", "l", "a", "s", "s", " ">>

\* the start of the leftmost match: the least element, 0 for none
FirstAt(S) == IF S = {} THEN 0 ELSE Least(S)

CharsOf(s) == {s[j] : j \in 1..Len(s)}

\* \s+ from p on, then the literal: the position of the literal, 0 for none
AfterWhite(s, p, lit) ==
    LET k == SkipWhite(s, p) IN IF k > p /\ LiteralAt(s, k, lit) THEN k ELSE 0

\* /import\s+(?:{([^}]+)}|(\w+))\s+from/ at i: group 1 or group 2, NoNames
\* when there is no match at i
NoNames == [matched |-> FALSE, braces |-> FALSE, text |-> <<>>]

importMatchAt(line, i) ==
    LET m == SkipWhite(line, i + Len(K_import))
        c == SkipClass(line, m + 1, CharsOf(line) \ {"}"})
        e == SkipClass(line, m, WordChars)
    IN IF ~(LiteralAt(line, i, K_import) /\ m > i + Len(K_import)) THEN NoNames
       ELSE IF m <= Len(line) /\ line[m] = "{"
       THEN IF c <= Len(line) /\ c >= m + 2 /\ AfterWhite(line, c + 1, K_from) > 0
            THEN [matched |-> TRUE, braces |-> TRUE, text |-> SubSeq(line, m + 1, c - 1)]
            ELSE NoNames
       ELSE IF e > m /\ AfterWhite(line, e, K_from) > 0
            THEN [matched |-> TRUE, braces |-> FALSE, text |-> SubSeq(line, m, e - 1)]
            ELSE NoNames

importMatch(line) ==
    LET i == FirstAt({j \in 1..Len(line) : importMatchAt(line, j).matched})
    IN IF i = 0 THEN NoNames ELSE importMatchAt(line, i)

\* name.replace(/\s+as\s+\w+/, "")
stripAs(name) ==
    LET endAt(r) ==
            LET k == SkipWhite(name, r)
                w == SkipWhite(name, k + Len(K_as))
            IN IF IsWhiteAt(name, r) /\ LiteralAt(name, k, K_as)
                  /\ w > k + Len(K_as) /\ IsWordAt(name, w)
               THEN SkipClass(name, w, WordChars) - 1 ELSE 0
        r0 == FirstAt({r \in 1..Len(name) : endAt(r) > 0})
    IN IF r0 = 0 THEN name
       ELSE SubSeq(name, 1, r0 - 1) \o SubSeq(name, endAt(r0) + 1, Len(name))

\* s.split(lit)[0]
BeforeFirst(s, lit) ==
    LET i == FirstAt({j \in 1..Len(s) : LiteralAt(s, j, lit)})
    IN IF i = 0 THEN s ELSE SubSeq(s, 1, i - 1)

\* fullPath.split(sep).pop() || fullPath
LastSegment(fullPath, sep) ==
    LET parts == Split(fullPath, sep)
    IN IF parts[Len(parts)] = <<>> THEN fullPath ELSE parts[Len(parts)]

\* [\w,\s]
NameListChars == WordChars \cup WhiteChars \cup {","}

\* /^(?:from\s+[\w.]+\s+)?import\s+([\w,\s]+)/ : group 1, NoNames for no match
pythonImportNames(line) ==
    LET m == SkipWhite(line, 1 + Len(K_from))
        e == SkipClass(line, m, DottedChars)
        viaFrom == IF LiteralAt(line, 1, K_from) /\ m > 1 + Len(K_from) /\ e > m
                   THEN AfterWhite(line, e, K_import) ELSE 0
        k == IF viaFrom > 0 THEN viaFrom ELSE IF LiteralAt(line, 1, K_import) THEN 1 ELSE 0
        a == k + Len(K_import)
        w == SkipWhite(line, a)
    IN IF k = 0 \/ w = a THEN NoNames
       ELSE IF w <= Len(line) /\ line[w] \in NameListChars
       THEN [matched |-> TRUE, braces |-> FALSE,
             text |-> SubSeq(line, w, SkipClass(line, w, NameListChars) - 1)]
       ELSE IF w - a >= 2
       THEN [matched |-> TRUE, braces |-> FALSE, text |-> <<line[w - 1]>>]
       ELSE NoNames

\* the imports one line contributes, in the order they are pushed
importsOfLine(line, n) ==
    LET es6 == importMatch(line)
        es6Names == IF ~es6.matched THEN <<>>
                    ELSE IF es6.braces
                    THEN LET ns == Split(es6.text, ",")
                         IN [k \in 1..Len(ns) |-> Trim(stripAs(Trim(ns[k])))]
                    ELSE <<Trim(stripAs(es6.text))>>
        py == pythonImportNames(line)
        pyNames == IF ~py.matched THEN <<>>
                   ELSE LET ns == Split(py.text, ",")
                        IN [k \in 1..Len(ns) |->
                               Trim(BeforeFirst(Trim(ns[k]), <<" ", "a", "s", " ">>))]
        java == IF javaImportEnd(line, 1) > 0
                THEN <<LastSegment(javaImportCapture(line, 1), ".")>> ELSE <<>>
        php == IF phpUseEnd(line, 1) > 0
               THEN <<LastSegment(phpUseCapture(line, 1), "\\")>> ELSE <<>>
        req == FirstAt({i \in 1..Len(line) : phpRequireEnd(line, i) > 0})
        phpReq == IF req > 0 THEN <<phpRequireCapture(line, req)>> ELSE <<>>
        names == es6Names \o pyNames \o java \o php \o phpReq
    IN [k \in 1..Len(names) |-> [name |-> names[k], line |-> n]]

FlatMap(parts) ==
    LET RECURSIVE go(_, _)
        go(i, acc) == IF i > Len(parts) THEN acc ELSE go(i + 1, acc \o parts[i])
    IN go(1, <<>>)

extractImportNames(content) ==
    LET lines == Split(content, "\n")
    IN FlatMap([n \in 1..Len(lines) |-> importsOfLine(lines[n], n)])

\* [a-zA-Z_$] and [a-zA-Z0-9_$]
IdentifierChars == WordChars \cup {"$"}
IdentifierStart == IdentifierChars \ {"0", "1", "2", "3", "4", "5", "6", "7", "8", "9"}

\* /\b([a-zA-Z_$][a-zA-Z0-9_$]*)\b/g at i: the last position of the match,
\* the longest run that ends at a word boundary; 0 for none
identifierEnd(s, i) ==
    IF i <= Len(s) /\ s[i] \in IdentifierStart /\ BoundaryAt(s, i)
    THEN LET e == SkipClass(s, i, IdentifierChars)
             ends == {j \in (i + 1)..e : BoundaryAt(s, j)}
         IN IF ends = {} THEN 0 ELSE (CHOOSE j \in ends : \A k \in ends : k <= j) - 1
    ELSE 0

extractUsedIdentifiers(content) ==
    Range(ExecAll(content, [i \in 1..Len(content) |-> identifierEnd(content, i)],
                  [i \in 1..Len(content) |-> SubSeq(content, i, identifierEnd(content, i))]))

\* /function\s+(\w+)\s*\(/ at i: the position of the name, 0 for none
functionNameAt(line, i) ==
    LET m == SkipWhite(line, i + Len(K_function))
        e == SkipClass(line, m, WordChars)
        p == SkipWhite(line, e)
    IN IF /\ LiteralAt(line, i, K_function) /\ m > i + Len(K_function) /\ e > m
          /\ p <= Len(line) /\ line[p] = "("
       THEN m ELSE 0

\* the word that starts at m
WordAt(line, m) == SubSeq(line, m, SkipClass(line, m, WordChars) - 1)

\* group 1 of the leftmost match of nameAt, <<>> for no match
FirstWord(line, nameAt) ==
    LET i == FirstAt({j \in 1..Len(line) : nameAt[j] > 0})
    IN IF i = 0 THEN <<>> ELSE WordAt(line, nameAt[i])

funcMatch(line) == FirstWord(line, [i \in 1..Len(line) |-> functionNameAt(line, i)])

\* (?:const|let|var)\s+(\w+)\s* at i: the position after it, 0 for none
declarationEnd(line, i) ==
    LET k == IF LiteralAt(line, i, K_const) THEN Len(K_const)
             ELSE IF LiteralAt(line, i, K_let) THEN Len(K_let)
             ELSE IF LiteralAt(line, i, K_var) THEN Len(K_var)
             ELSE 0
        m == SkipWhite(line, i + k)
        e == SkipClass(line, m, WordChars)
    IN IF k > 0 /\ m > i + k /\ e > m THEN SkipWhite(line, e) ELSE 0

declarationName(line, i) ==
    IF LiteralAt(line, i, K_const) THEN SkipWhite(line, i + Len(K_const))
    ELSE IF LiteralAt(line, i, K_let) THEN SkipWhite(line, i + Len(K_let))
    ELSE SkipWhite(line, i + Len(K_var))

\* /(?:const|let|var)\s+(\w+)\s*=\s*(?:$$[^)]*$$|[^=]+)\s*=>/ at i. The
\* first alternative asks for the end of the line and cannot be followed
\* by `=>`; the second takes the characters up to the next `=`, at least
\* one, and that `=` has to begin `=>`
arrowNameAt(line, i) ==
    LET q == declarationEnd(line, i)
        r == SkipClass(line, q + 1, CharsOf(line) \ {"="})
        viaAnchors == /\ EndOfInputAt(line, SkipWhite(line, q + 1))
                      /\ LiteralAt(line, SkipWhite(line, q + 1), <<"=", ">">>)
        viaText == r >= q + 2 /\ LiteralAt(line, r, <<"=", ">">>)
    IN IF q > 0 /\ q <= Len(line) /\ line[q] = "=" /\ (viaAnchors \/ viaText)
       THEN declarationName(line, i) ELSE 0

arrowMatch(line) == FirstWord(line, [i \in 1..Len(line) |-> arrowNameAt(line, i)])

\* /^def\s+(\w+)\s*\(/
pythonFunc(line) ==
    LET m == SkipWhite(line, 1 + Len(K_def))
        e == SkipClass(line, m, WordChars)
        p == SkipWhite(line, e)
    IN IF /\ LiteralAt(line, 1, K_def) /\ m > 1 + Len(K_def) /\ e > m
          /\ p <= Len(line) /\ line[p] = "("
       THEN WordAt(line, m) ELSE <<>>

\* /(?:public|private|protected)?\s*(?:static)?\s*\w+\s+(\w+)\s*\(/ : the
\* modifiers are optional, so a match is a word character, white space, a
\* whole word, optional white space and `(`; p is the position of the `(`.
\* The position of the name, 0 for none
javaNameBefore(line, p) ==
    LET e == SkipWhiteBack(line, p - 1)
        b == CHOOSE j \in 0..e : /\ \A k \in (j + 1)..e : IsWordAt(line, k)
                                 /\ ~IsWordAt(line, j)
        t == SkipWhiteBack(line, b)
    IN IF /\ line[p] = "(" /\ IsWordAt(line, e)
          /\ IsWhiteAt(line, b) /\ IsWordAt(line, t)
       THEN b + 1 ELSE 0

javaMethod(line) == FirstWord(line, [p \in 1..Len(line) |-> javaNameBefore(line, p)])

\* the functions one line contributes, in the order they are pushed; the
\* body of a function is not part of the record here
functionsOfLine(line, n) ==
    LET names == <<funcMatch(line), arrowMatch(line), pythonFunc(line),
                   IF Contains(line, K_class) THEN <<>> ELSE javaMethod(line),
                   funcMatch(line)>>
        found == SelectSeq(names, LAMBDA w : w # <<>>)
    IN [k \in 1..Len(found) |-> [name |-> found[k], line |-> n]]

extractFunctions(content) ==
    LET lines == Split(content, "\n")
    IN FlatMap([n \in 1..Len(lines) |-> functionsOfLine(lines[n], n)])

\* /(?:const|let|var)\s+(\w+)\s*=/
varMatch(line) ==
    FirstWord(line, [i \in 1..Len(line) |->
                        IF declarationEnd(line, i) > 0
                           /\ declarationEnd(line, i) <= Len(line)
                           /\ line[declarationEnd(line, i)] = "="
                        THEN declarationName(line, i) ELSE 0])

extractVariables(content) ==
    LET lines == Split(content, "\n")
        found == SelectSeq([n \in 1..Len(lines) |-> [name |-> varMatch(lines[n]), line |-> n]],
                           LAMBDA v : v.name # <<>>)
    IN found

\* content.match(new RegExp(`\\b${identifier}\\b`, "g"))
countUsages(content, identifier) == CountBounded(content, identifier)

(***************************************************************************)
(* findDeadCode and findRedundantCode.                                     *)
(***************************************************************************)
\* node?.exports.includes(name)
isExported(dependencyGraph, path, name) ==
    /\ MapHas(dependencyGraph.nodes, path)
    /\ name \in Range(dependencyGraph.nodes.get[path].exports)

deadCodeOfFile(file, dependencyGraph) ==
    LET allImports == extractImportNames(file.content)
        usedIdentifiers == extractUsedIdentifiers(file.content)
        unusedImports == SelectSeq(allImports, LAMBDA imp : imp.name \notin usedIdentifiers)
        functions == extractFunctions(file.content)
        unusedFunctions ==
            SelectSeq(functions,
                      LAMBDA func : /\ ~isExported(dependencyGraph, file.path, func.name)
                                    /\ func.name \notin usedIdentifiers)
        variables == extractVariables(file.content)
        unusedVariables ==
            SelectSeq(variables, LAMBDA v : countUsages(file.content, v.name) = 1)
    IN [k \in 1..Len(unusedImports) |->
            [type |-> "import", name |-> unusedImports[k].name, file |-> file.path,
             line |-> unusedImports[k].line,
             reason |-> "Import is never used in this file"]]
       \o [k \in 1..Len(unusedFunctions) |->
            [type |-> "function", name |-> unusedFunctions[k].name, file |-> file.path,
             line |-> unusedFunctions[k].line,
             reason |-> "Function is never called or exported"]]
       \o [k \in 1..Len(unusedVariables) |->
            [type |-> "variable", name |-> unusedVariables[k].name, file |-> file.path,
             line |-> unusedVariables[k].line,
             reason |-> "Variable is declared but never used"]]

findDeadCode(fs, dependencyGraph) ==
    FlatMap([i \in 1..Len(fs) |-> deadCodeOfFile(fs[i], dependencyGraph)])

K_true == <<"t", "r", "u", "e">>
K_false == <<"f", "a", "l", "s", "e">>
K_TrueColon == <<"T", "r", "u", "e", ":">>
K_pass == <<"p", "a", "s", "s">>
K_println ==
  <<"S", "y", "s", "t", "e", "m", ".", "o", "u", "t", ".", "p", "r", "i",
    "n", "t", "l", "n">>
K_var_dump == <<"v", "a", "r", "_", "d", "u", "m", "p">>
K_print_r == <<"p", "r", "i", "n", "t", "_", "r">>
K_console == <<"c", "o", "n", "s", "o", "l", "e", ".">>
ConsoleMethods == {<<"l", "o", "g", "(">>, <<"d", "e", "b", "u", "g", "(">>,
                   <<"i", "n", "f", "o", "(">>, <<"w", "a", "r", "n", "(">>}

\* /if\s*$$\s*true\s*$$/ and /if\s*$$\s*false\s*$$/ : after `if` and white
\* space the pattern asks for the end of the line and then for the word
anchoredCondition(line, word) ==
    \E i \in 1..Len(line) :
        /\ LiteralAt(line, i, K_if)
        /\ EndOfInputAt(line, SkipWhite(line, i + Len(K_if)))
        /\ LiteralAt(line, SkipWhite(line, i + Len(K_if)), word)

finding(type, file, n, message, suggestion) ==
    [type |-> type, file |-> file.path, line |-> n, message |-> message,
     suggestion |-> suggestion]

\* the findings of line n of a file, in the order of the rules
redundantOfLine(file, line, n) ==
    (IF anchoredCondition(line, K_true)
     THEN <<finding("redundant_condition", file, n, "Condition is always true",
                    "Remove the if statement and keep only the code block")>>
     ELSE <<>>)
    \o (IF anchoredCondition(line, K_false)
        THEN <<finding("redundant_condition", file, n, "Condition is always false",
                       "Remove this entire if block as it will never execute")>>
        ELSE <<>>)
    \o (IF file.language = "py"
           /\ \E i \in 1..Len(line) :
                LiteralAt(line, i, K_if) /\ AfterWhite(line, i + Len(K_if), K_TrueColon) > 0
        THEN <<finding("redundant_condition", file, n, "Condition is always True",
                       "Remove the if statement and unindent the code block")>>
        ELSE <<>>)
    \o (IF file.language = "py" /\ n > 1
           /\ \E i \in 1..Len(line) :
                LiteralAt(line, i, K_pass)
                /\ EndOfInputAt(line, SkipWhite(line, i + Len(K_pass)))
        THEN <<finding("unused_code", file, n, "Empty pass statement",
                       "Remove pass or add implementation")>>
        ELSE <<>>)
    \o (IF file.language = "java" /\ Contains(line, K_println)
        THEN <<finding("unused_code", file, n, "Debug print statement found",
                       "Remove System.out.println before production")>>
        ELSE <<>>)
    \o (IF file.language = "php" /\ (Contains(line, K_var_dump) \/ Contains(line, K_print_r))
        THEN <<finding("unused_code", file, n, "Debug statement found",
                       "Remove var_dump/print_r before production")>>
        ELSE <<>>)
    \o (IF \E i \in 1..Len(line) : LiteralAt(line, i, <<"!", "!">>) /\ IsWordAt(line, i + 2)
        THEN <<finding("unnecessary_complexity", file, n, "Double negation detected",
                       "Use Boolean() or remove unnecessary negations")>>
        ELSE <<>>)
    \o (IF \E m \in ConsoleMethods : Contains(line, K_console \o m)
        THEN <<finding("unused_code", file, n, "Console statement found",
                       "Remove console statements before production deployment")>>
        ELSE <<>>)

findRedundantCode(fs) ==
    FlatMap([i \in 1..Len(fs) |->
                LET lines == Split(fs[i].content, "\n")
                IN FlatMap([n \in 1..Len(lines) |-> redundantOfLine(fs[i], lines[n], n)])])

\* lines of the file given to findDeadCode and findRedundantCode
MaxSourceLines == 2

Q_function ==
  <<"f", "u", "n", "c", "t", "i", "o", "n", " ", "f", "(", ")", " ", "{", "}">>
Q_call == <<"f", "(", ")", ";">>
Q_import ==
  <<"i", "m", "p", "o", "r", "t", " ", "{", " ", "g", " ", "}", " ", "f",
    "r", "o", "m", " ", "\"", "x", "\"">>
Q_importDefault ==
  <<"i", "m", "p", "o", "r", "t", " ", "g", " ", "f", "r", "o", "m", " ",
    "\"", "x", "\"">>
Q_use == <<"g", "(", ")", ";">>
Q_const ==
  <<"c", "o", "n", "s", "t", " ", "v", " ", "=", " ", "1", ";">>
Q_bang == <<"!", "!", "v">>
Q_ifTrue == <<"i", "f", " ", "T", "r", "u", "e", ":">>
Q_pass == <<"p", "a", "s", "s">>
SourceLines == {Q_function, Q_call, Q_import, Q_importDefault, Q_use, Q_const, Q_bang,
                Q_ifTrue, Q_pass}

N_f == <<"f">>

\* the language tags the rules and templates are written for, and one
\* the analyzer knows nothing about
RecognizedLanguages == {"js", "jsx", "ts", "tsx", "py", "java", "php"}
Languages == {"ts", "py", "rs"}

nodeOf(path, exports) ==
    [path |-> path, imports |-> <<>>, exports |-> exports, dependencies |-> <<>>,
     dependents |-> <<>>]

\* one file of at most MaxSourceLines lines, in any of the languages, whose
\* node exports f or nothing
InitFindings ==
    /\ \E ls \in SeqsUpTo(SourceLines, MaxSourceLines) :
         \E language \in Languages :
           qfiles = <<[path |-> P_a, content |-> Join(ls, <<"\n">>), language |-> language]>>
    /\ \E exports \in {<<>>, <<N_f>>} :
         graph = [NoGraph EXCEPT !.nodes = MapSet(EmptyMap, P_a, nodeOf(P_a, exports))]
    /\ files = <<>>
    /\ pc = "idle"
    /\ allBlocks = <<>>
    /\ duplicates = <<>>
    /\ qpc = "start"
    /\ report = NoReport
    /\ ComplexityIdle
    /\ IssuesIdle /\ ImportsIdle /\ ResolveIdle /\ OutcomeIdle

FindDeadCode ==
    /\ qpc = "start"
    /\ report' = [report EXCEPT !.deadCode = findDeadCode(qfiles, graph)]
    /\ qpc' = "dead"
    /\ UNCHANGED <<files, graph, pc, code, complexity, ccpc, qfiles, allBlocks, duplicates,
                   issues, source, extracted, ipc, request, resolution, outcome>>

FindRedundantCode ==
    /\ qpc = "dead"
    /\ report' = [report EXCEPT !.redundantCode = findRedundantCode(qfiles)]
    /\ qpc' = "redundant"
    /\ UNCHANGED <<files, graph, pc, code, complexity, ccpc, qfiles, allBlocks, duplicates,
                   issues, source, extracted, ipc, request, resolution, outcome>>

NextFindings == FindDeadCode \/ FindRedundantCode

SpecFindings == InitFindings /\ [][NextFindings]_vars

\* C13: findDeadCode reports a finding of type function for every extracted
\* function whose name is not among the file's exports and occurs in the
\* file only at its own declaration.
C13_UnusedFunctionsReported ==
    qpc \in {"dead", "redundant"} =>
        \A i \in 1..Len(qfiles) :
            \A func \in Range(extractFunctions(qfiles[i].content)) :
                (/\ ~isExported(graph, qfiles[i].path, func.name)
                 /\ countUsages(qfiles[i].content, func.name) = 1)
                => \E d \in Range(report.deadCode) :
                       /\ d.type = "function"
                       /\ d.name = func.name
                       /\ d.file = qfiles[i].path
                       /\ d.line = func.line

\* C14: findDeadCode reports a finding of type import, "Import is never
\* used in this file", for every extracted import name that occurs in the
\* file only in its own import statement.
C14_UnusedImportsReported ==
    qpc \in {"dead", "redundant"} =>
        \A i \in 1..Len(qfiles) :
            \A imp \in Range(extractImportNames(qfiles[i].content)) :
                countUsages(qfiles[i].content, imp.name) = 1
                => \E d \in Range(report.deadCode) :
                       /\ d.type = "import"
                       /\ d.name = imp.name
                       /\ d.file = qfiles[i].path
                       /\ d.line = imp.line
                       /\ d.reason = "Import is never used in this file"

\* C15: a file whose language tag is not a recognized one has no dead-code
\* finding and no redundant-pattern finding, whatever its content.
C15_UnrecognizedLanguageNoFindings ==
    \A i \in 1..Len(qfiles) :
        qfiles[i].language \notin RecognizedLanguages
        => /\ \A d \in Range(report.deadCode) : d.file # qfiles[i].path
           /\ \A r \in Range(report.redundantCode) : r.file # qfiles[i].path

(***************************************************************************)
(* resolveImportPaths on its own: one importing file, a list of            *)
(* specifiers and a file set.                                              *)
(***************************************************************************)
\* files of the set, and specifiers of the importing file
MaxFiles == 3
MaxImports == 2

P_s_b_bare == <<"s", "/", "b">>
P_s_b_js == <<"s", "/", "b", ".", "j", "s">>
P_s_b_index == <<"s", "/", "b", "/", "i", "n", "d", "e", "x", ".", "t", "s">>
P_b_js == <<"b", ".", "j", "s">>
ResolvePaths == {P_s_b_bare, P_s_b_js, P_s_b, P_s_b_index, P_b_js, P_b}
ResolveSpecifiers == {I_b, I_up_b, I_react}

InitResolve ==
    /\ \E n \in 0..MaxFiles :
         \E ps \in DistinctSeqs(ResolvePaths, n) :
           files = [i \in 1..n |-> [path |-> ps[i], content |-> <<>>]]
    /\ \E imps \in SeqsUpTo(ResolveSpecifiers, MaxImports) :
         request = [imports |-> imps, currentFile |-> P_s_a]
    /\ resolution = <<>>
    /\ graph = NoGraph
    /\ pc = "start"
    /\ ComplexityIdle /\ QualityIdle
    /\ IssuesIdle /\ ImportsIdle /\ ReportIdle /\ OutcomeIdle

ResolveImportPaths ==
    /\ pc = "start"
    /\ resolution' = resolveImportPaths(request.imports, request.currentFile, files)
    /\ pc' = "resolved"
    /\ UNCHANGED <<files, graph, code, complexity, ccpc, qfiles, allBlocks, duplicates, qpc,
                   issues, source, extracted, ipc, report, request, outcome>>

NextResolve == ResolveImportPaths

SpecResolve == InitResolve /\ [][NextResolve]_vars

\* the candidates of a specifier that are paths of the file set, by their
\* place in the candidate order
PresentCandidates(imp) ==
    {k \in 1..Len(Suffixes) : possiblePaths(imp, request.currentFile)[k] \in FilePaths}

\* what one specifier contributes: nothing, or its earliest present candidate
EarliestCandidate(imp) ==
    IF ~IsRelative(imp) \/ PresentCandidates(imp) = {} THEN <<>>
    ELSE <<possiblePaths(imp, request.currentFile)[Least(PresentCandidates(imp))]>>

\* C16: each relative specifier contributes at most one dependency, the
\* earliest candidate of the fixed order that is a path of the file set;
\* later candidates that exist too do not enter the result.
C16_EarliestCandidateOnly ==
    pc = "resolved" =>
        resolution = FlatMap([k \in 1..Len(request.imports) |->
                                 EarliestCandidate(request.imports[k])])

\* C16 witness: a specifier with two candidates in the file set (s/b.js and
\* s/b.ts) has been resolved to the earlier one.
C16_Witness ==
    /\ pc = "resolved"
    /\ request.imports = <<I_b>>
    /\ {P_s_b_js, P_s_b} \subseteq FilePaths
    /\ P_s_b_bare \notin FilePaths
    /\ resolution = <<P_s_b_js>>

(***************************************************************************)
(* analyzeDependencies on every order of its input.                        *)
(***************************************************************************)
\* files of an input plus import statements, where every order is compared
MaxOrderSize == 4

InitOrder ==
    /\ \E n \in 0..MaxOrderSize :
         \E ps \in DistinctSeqs(Paths, n) :
           \E cs \in ContentSeqs(n, MaxOrderSize - n) :
             files = [i \in 1..n |-> [path |-> ps[i], content |-> cs[i]]]
    /\ graph = NoGraph
    /\ pc = "start"
    /\ ComplexityIdle
    /\ QualityIdle
    /\ LaterIdle

SpecOrder == InitOrder /\ [][Next]_vars

\* the inputs that hold the files of the input in another order
Reorderings == {[i \in 1..Len(files) |-> files[p[i]]] : p \in Permutations(1..Len(files))}

\* two graphs with the same edge sets, missing entries and unused files
SameSets(g, h) ==
    /\ Range(g.nodes.keys) = Range(h.nodes.keys)
    /\ \A p \in Range(g.nodes.keys) :
         /\ Range(g.nodes.get[p].dependencies) = Range(h.nodes.get[p].dependencies)
         /\ Range(g.nodes.get[p].dependents) = Range(h.nodes.get[p].dependents)
    /\ Range(g.missingDependencies) = Range(h.missingDependencies)
    /\ Range(g.unusedFiles) = Range(h.unusedFiles)

\* C17: permuting the files of the input leaves every node's dependencies
\* set and dependents set, the set of missing entries and the set of unused
\* files unchanged.
C17_OrderIndependent ==
    pc = "done" => \A other \in Reorderings : SameSets(graph, analyzeDependencies(other))

\* C17 witness: an analysed input of three files with an edge and an unused
\* file, one of whose reorderings gives a graph that differs from this one
\* in the order of its keys or lists.
C17_Witness ==
    /\ pc = "done"
    /\ Len(files) >= 3
    /\ graph.unusedFiles # <<>>
    /\ \E p \in Keys : Len(Node(p).dependents) >= 1
    /\ \E other \in Reorderings : analyzeDependencies(other) # graph

(***************************************************************************)
(* The two entry points on input that is not validated: a path or a        *)
(* content may be any JavaScript value. Values carry their type: a string  *)
(* its characters, a number its decimal digits.                            *)
(***************************************************************************)
Str(chars) == [type |-> "string", chars |-> chars]
Num(digits) == [type |-> "number", chars |-> digits]
Null == [type |-> "null", chars |-> <<>>]

\* ToString, the conversion RegExp.prototype.exec applies to its argument
ToStringOf(v) == IF v.type = "null" THEN <<"n", "u", "l", "l">> ELSE v.chars

\* a method call on v that only strings have: v.split(...)
HasSplit(v) == v.type = "string"

\* the first pass of analyzeDependencies: extractImports converts the
\* content to a string; resolveImportPaths calls currentFile.split for the
\* first relative specifier, which throws when the path has no split
dependenciesThrowAt(file) ==
    /\ ~HasSplit(file.path)
    /\ \E k \in 1..Len(extractImportsFrom(ToStringOf(file.content))) :
         LET imp == extractImportsFrom(ToStringOf(file.content))[k]
         IN ~isExternalDependency(imp) /\ StartsWith(imp, <<".">>)

analyzeDependenciesOutcome(rawFiles) ==
    IF \E i \in 1..Len(rawFiles) : dependenciesThrowAt(rawFiles[i])
    THEN [kind |-> "TypeError"]
    ELSE [kind |-> "returned"]

\* analyzeCodeQuality: findDuplicateCode runs first and calls
\* file.content.split("\n") for every file; nothing reads the path as a string
analyzeCodeQualityOutcome(rawFiles) ==
    IF \E i \in 1..Len(rawFiles) : ~HasSplit(rawFiles[i].content)
    THEN [kind |-> "TypeError"]
    ELSE [kind |-> "returned"]

\* files of an unvalidated input
MaxRawFiles == 2

RawPaths == {Str(P_a), Str(P_s_a), Null}
RawContents == {Str(<<>>), Str(bareImport(I_b)), Str(bareImport(I_react)),
                Num(<<"4", "2">>), Null}

InitUnvalidated ==
    /\ \E n \in 0..MaxRawFiles :
         \E ps \in [1..n -> RawPaths] :
           \E cs \in [1..n -> RawContents] :
             files = [i \in 1..n |-> [path |-> ps[i], content |-> cs[i]]]
    /\ graph = NoGraph
    /\ pc = "start"
    /\ outcome = NoOutcome
    /\ ComplexityIdle /\ QualityIdle
    /\ IssuesIdle /\ ImportsIdle /\ ReportIdle /\ ResolveIdle

CallAnalyzeDependencies ==
    /\ pc = "start"
    /\ outcome' = analyzeDependenciesOutcome(files)
    /\ pc' = "dependencies"
    /\ UNCHANGED <<files, graph, code, complexity, ccpc, qfiles, allBlocks, duplicates, qpc,
                   issues, source, extracted, ipc, report, request, resolution>>

CallAnalyzeCodeQuality ==
    /\ pc = "start"
    /\ outcome' = analyzeCodeQualityOutcome(files)
    /\ pc' = "quality"
    /\ UNCHANGED <<files, graph, code, complexity, ccpc, qfiles, allBlocks, duplicates, qpc,
                   issues, source, extracted, ipc, report, request, resolution>>

NextUnvalidated == CallAnalyzeDependencies \/ CallAnalyzeCodeQuality

SpecUnvalidated == InitUnvalidated /\ [][NextUnvalidated]_vars

\* a file with a content that is no string, or a null path
Malformed(file) == file.content.type # "string" \/ file.path.type = "null"

\* C18: on an input with a malformed file, analyzeDependencies and
\* analyzeCodeQuality fail with the error kind InvalidInput and return no
\* graph and no report.
C18_MalformedInputIsInvalidInput ==
    (pc \in {"dependencies", "quality"} /\ \E i \in 1..Len(files) : Malformed(files[i]))
    => outcome.kind = "InvalidInput"

(***************************************************************************)
(* findDuplicateCode and a budget of windows. The comparison loops visit   *)
(* the pairs in order, the pair of the last two windows last: a run that   *)
(* stops before it has compared every pair has not compared that one.      *)
(***************************************************************************)
LastPairReported ==
    /\ Len(allBlocks) >= 2
    /\ \E k \in 1..Len(duplicates) :
         duplicates[k].blocks = <<allBlocks[Len(allBlocks) - 1], allBlocks[Len(allBlocks)]>>

\* C19: when the windows exceed a budget, findDuplicateCode stops with the
\* partial results instead of comparing every pair of windows, whatever the
\* budget is: the last pair of windows is not compared, so not reported.
C19_OverBudgetStopsComparing ==
    \A budget \in 1..MaxLines :
        (qpc = "done" /\ Len(allBlocks) > budget) => ~LastPairReported

(***************************************************************************)
(* detectCircularDependencies on its own: the dependency lists are drawn   *)
(* from every graph of a few edges. The keys are in insertion order; the   *)
(* search reads nothing of a node but its dependencies.                    *)
(***************************************************************************)
MaxEdges == 4

NodeNames == <<P_a, P_b, P_index, P_s_a>>

\* the targets of the edges leaving x, in the order of the edge list
targetsOf(edges, x) ==
    LET RECURSIVE go(_, _)
        go(i, acc) ==
            IF i > Len(edges) THEN acc
            ELSE go(i + 1, IF NodeNames[edges[i][1]] = x
                           THEN Append(acc, NodeNames[edges[i][2]]) ELSE acc)
    IN go(1, <<>>)

nodesOf(n, edges) ==
    LET RECURSIVE go(_, _)
        go(i, nodes) ==
            IF i > n THEN nodes
            ELSE go(i + 1, MapSet(nodes, NodeNames[i],
                        [path |-> NodeNames[i],
                         imports |-> <<>>,
                         dependencies |-> targetsOf(edges, NodeNames[i]),
                         dependents |-> <<>>]))
    IN secondPass(go(1, EmptyMap))

\* the lists of m edges among the first n names, grouped by source: only the
\* order of the edges leaving one node reaches the dependency lists. An edge
\* may be there twice, as two specifiers may resolve to one file.
EdgeLists(n, m) ==
    {edges \in [1..m -> (1..n) \X (1..n)] :
        \A i, j \in 1..m : i < j => edges[i][1] <= edges[j][1]}

InitGraph ==
    /\ \E n \in 1..Len(NodeNames) :
         \E m \in 0..MaxEdges :
           \E edges \in EdgeLists(n, m) :
             graph = [NoGraph EXCEPT !.nodes = nodesOf(n, edges)]
    /\ files = <<>>
    /\ pc = "start"
    /\ ComplexityIdle
    /\ QualityIdle
    /\ LaterIdle

DetectCircularDependencies ==
    /\ pc = "start"
    /\ graph' = [graph EXCEPT !.circularDependencies = detectCircularDependencies(graph.nodes)]
    /\ pc' = "cycles"
    /\ UNCHANGED <<files, code, complexity, ccpc, qfiles, allBlocks, duplicates, qpc, laterVars>>

NextGraph == DetectCircularDependencies

SpecGraph == InitGraph /\ [][NextGraph]_vars

dependenciesOf(x) == IF MapHas(graph.nodes, x) THEN Range(graph.nodes.get[x].dependencies) ELSE {}

ClosedLoop(cycle) ==
    /\ Len(cycle) >= 2
    /\ cycle[1] = cycle[Len(cycle)]
    /\ \A i \in 1..(Len(cycle) - 1) : cycle[i + 1] \in dependenciesOf(cycle[i])
    /\ \A i, j \in 1..(Len(cycle) - 1) : i # j => cycle[i] # cycle[j]

\* C20: every cycle detectCircularDependencies returns is a closed loop of
\* the graph: first and last element equal, every consecutive pair an edge,
\* and no node repeated but the closing one.
C20_CyclesAreClosedLoops ==
    pc = "cycles" =>
        \A c \in 1..Len(graph.circularDependencies) : ClosedLoop(graph.circularDependencies[c])

\* C20 witness: a cycle through three nodes is returned that the search
\* entered from the first key, a node outside the cycle.
C20_Witness ==
    /\ pc = "cycles"
    /\ \E c \in 1..Len(graph.circularDependencies) :
         /\ Len(graph.circularDependencies[c]) = 4
         /\ graph.nodes.keys[1] \notin Range(graph.circularDependencies[c])
         /\ graph.circularDependencies[c][1] \in dependenciesOf(graph.nodes.keys[1])

(***************************************************************************)
(* Cycles of the graph against the cycles returned.                        *)
(***************************************************************************)
\* the nodes reached from x by one edge or more
ReachedFrom(x) ==
    LET RECURSIVE grow(_)
        grow(S) ==
            LET T == S \cup UNION {dependenciesOf(y) : y \in S}
            IN IF T = S THEN S ELSE grow(T)
    IN grow(dependenciesOf(x))

OnCycle(x) == x \in ReachedFrom(x)

\* cycle.includes(file.path) for some returned cycle
InReturnedCycle(x) ==
    \E c \in 1..Len(graph.circularDependencies) : x \in Range(graph.circularDependencies[c])

\* C21: every file on a directed cycle of the graph is in at least one of
\* the cycles detectCircularDependencies returns.
C21_EveryCycleFileIsReported ==
    pc = "cycles" =>
        \A i \in 1..Len(graph.nodes.keys) :
            OnCycle(graph.nodes.keys[i]) => InReturnedCycle(graph.nodes.keys[i])

(***************************************************************************)
(* analyzeDependencies on files that name one file by several specifiers.  *)
(***************************************************************************)
MaxAliasImports == 2

I_b_ts == <<".", "/", "b", ".", "t", "s">>
AliasSpecifiers == {I_b, I_b_ts, I_up_b}
AliasPaths == {P_s_a, P_s_b, P_b}

InitAliases ==
    /\ \E n \in 1..2 :
         \E ps \in DistinctSeqs(AliasPaths, n) :
           \E cs \in [1..n -> SeqsUpTo(AliasSpecifiers, MaxAliasImports)] :
             files = [i \in 1..n |-> [path |-> ps[i], content |-> cs[i]]]
    /\ graph = NoGraph
    /\ pc = "start"
    /\ ComplexityIdle
    /\ QualityIdle
    /\ LaterIdle

SpecAliases == InitAliases /\ [][Next]_vars

NoPathTwice(list) == \A i, j \in 1..Len(list) : i # j => list[i] # list[j]

\* C22: in every node neither dependencies nor dependents holds a path
\* twice, also when two specifiers of one file resolve to the same file.
C22_DependencyListsAreSets ==
    pc = "done" =>
        \A p \in Keys : NoPathTwice(Node(p).dependencies) /\ NoPathTwice(Node(p).dependents)

(***************************************************************************)
(* The positions of the window in a file.                                  *)
(***************************************************************************)
linesOf(file) == Split(file.content, "\n")

\* the run of minLines lines that starts at line i (1-based), joined
runAt(file, i) == Join(SubSeq(linesOf(file), i, i + minLines - 1), <<"\n">>)

HasWindowAt(file, i) ==
    \E b \in 1..Len(allBlocks) : allBlocks[b].file = file.path /\ allBlocks[b].startLine = i

\* C23: a file of N >= 5 lines yields a window for each of its N-4 runs of
\* 5 consecutive lines that is long enough, the last run included.
C23_WindowAtEveryPosition ==
    qpc = "done" =>
        \A f \in 1..Len(qfiles) :
            \A i \in 1..(Len(linesOf(qfiles[f])) - minLines + 1) :
                Len(Trim(runAt(qfiles[f], i))) > MinBlockLength => HasWindowAt(qfiles[f], i)

(***************************************************************************)
(* buildAnalysisContext and the request that carries the graph to it.      *)
(* The contents of the model are lists of specifiers, so of the context    *)
(* the file entries (path, dependencies, dependents) and the entry points  *)
(* are kept; totalLines and qualityReport are computed from the text.      *)
(***************************************************************************)
MaxContextSize == 3

S_route == <<"r", "o", "u", "t", "e", ".">>

\* isEntryPoint of multi-file-analyzer.ts, a list of its own
isEntryPointOfContext(path) ==
    \/ StartsWith(path, S_index)
    \/ StartsWith(path, S_main)
    \/ StartsWith(path, S_app)
    \/ \E e \in ScriptExts : EndsWith(path, S_page \o e)
    \/ \E e \in ScriptExts : EndsWith(path, S_layout \o e)
    \/ \E e \in ScriptExts : EndsWith(path, S_route \o e)

\* a Map has get; the object JSON.parse builds for "{}" has none
EmptyObject == [keys |-> <<>>, get |-> <<>>, plain |-> TRUE]
IsMap(nodes) == "plain" \notin DOMAIN nodes

\* JSON.parse(JSON.stringify(graph)): a Map has no enumerable property of
\* its own and is written as {}; arrays of strings and of records come back
\* as they were
jsonRoundTrip(g) == [g EXCEPT !.nodes = EmptyObject]

\* node?.dependencies || [] for node = dependencyGraph.nodes.get(file.path)
fileContext(file, nodes) ==
    [path |-> file.path,
     dependencies |-> IF MapHas(nodes, file.path) THEN nodes.get[file.path].dependencies ELSE <<>>,
     dependents |-> IF MapHas(nodes, file.path) THEN nodes.get[file.path].dependents ELSE <<>>]

entryPointsOf(fileContexts) ==
    LET kept == SelectSeq(fileContexts,
                    LAMBDA f : Len(f.dependents) = 0 \/ isEntryPointOfContext(f.path))
    IN [i \in 1..Len(kept) |-> kept[i].path]

\* files.map calls dependencyGraph.nodes.get for the first file
buildAnalysisContext(fs, dependencyGraph) ==
    IF Len(fs) > 0 /\ ~IsMap(dependencyGraph.nodes)
    THEN [kind |-> "TypeError"]
    ELSE LET fileContexts == [i \in 1..Len(fs) |-> fileContext(fs[i], dependencyGraph.nodes)]
         IN [kind |-> "context",
             files |-> fileContexts,
             entryPoints |-> entryPointsOf(fileContexts)]

InitContext ==
    /\ \E n \in 0..MaxContextSize :
         \E ps \in DistinctSeqs(Paths, n) :
           \E cs \in ContentSeqs(n, MaxContextSize - n) :
             files = [i \in 1..n |-> [path |-> ps[i], content |-> cs[i]]]
    /\ graph = NoGraph
    /\ pc = "start"
    /\ ComplexityIdle
    /\ QualityIdle
    /\ LaterIdle

\* buildAnalysisContext called on the graph analyzeDependencies returned
BuildAnalysisContext ==
    /\ pc = "done"
    /\ outcome' = buildAnalysisContext(files, graph)
    /\ pc' = "context"
    /\ UNCHANGED <<files, graph, code, complexity, ccpc, qfiles, allBlocks, duplicates, qpc,
                   issues, source, extracted, ipc, report, request, resolution>>

\* handleAnalyze in project mode with every file selected, then POST: the
\* body is written with JSON.stringify and read with req.json()
PostAnalyzeCode ==
    /\ pc = "done"
    /\ outcome' = buildAnalysisContext(files, jsonRoundTrip(graph))
    /\ pc' = "posted"
    /\ UNCHANGED <<files, graph, code, complexity, ccpc, qfiles, allBlocks, duplicates, qpc,
                   issues, source, extracted, ipc, report, request, resolution>>

NextContext == AnalyzeDependencies \/ BuildAnalysisContext \/ PostAnalyzeCode

SpecContext == InitContext /\ [][NextContext]_vars

\* C24: no path is both in the unusedFiles of the graph and in the
\* entryPoints of the context built from it.
C24_EntryPointsNeverUnused ==
    (pc = "context" /\ outcome.kind = "context") =>
        Range(graph.unusedFiles) \cap Range(outcome.entryPoints) = {}

\* C30: a project request with at least one file gets its context built
\* from the graph that went through JSON, and every file entry shows the
\* dependencies and dependents of the file's node.
C30_GraphSurvivesRequest ==
    (pc = "posted" /\ Len(files) >= 1) =>
        /\ outcome.kind = "context"
        /\ \A i \in 1..Len(files) :
             /\ outcome.files[i].dependencies = Node(files[i].path).dependencies
             /\ outcome.files[i].dependents = Node(files[i].path).dependents

(***************************************************************************)
(* The search itself: its calls and the sets it leaves behind.             *)
(***************************************************************************)
\* C25: on every graph the detection ends with dfs entered at most once per
\* node (once for every key) and with an empty recursion stack.
C25_SearchEntersEachNodeOnce ==
    pc = "cycles" =>
        LET st == detection(graph.nodes)
        IN /\ st.circular = graph.circularDependencies
           /\ NoPathTwice(st.calls)
           /\ Range(st.calls) = Range(graph.nodes.keys)
           /\ st.visited = Range(graph.nodes.keys)
           /\ st.recursionStack = {}

\* C25 witness: the detection has ended on a graph of three nodes or more
\* with a self-loop and a cycle through two nodes or more.
C25_Witness ==
    /\ pc = "cycles"
    /\ Len(graph.nodes.keys) >= 3
    /\ \E x \in Range(graph.nodes.keys) : x \in dependenciesOf(x)
    /\ \E c \in 1..Len(graph.circularDependencies) : Len(graph.circularDependencies[c]) >= 3

Acyclic == \A x \in Range(graph.nodes.keys) : ~OnCycle(x)

\* C26: detectCircularDependencies returns the empty list exactly when the
\* graph has no directed cycle, a self-loop being a cycle.
C26_EmptyExactlyWhenAcyclic ==
    pc = "cycles" => (graph.circularDependencies = <<>> <=> Acyclic)

\* C26 witness: the only cycles of a graph of three nodes and three edges or
\* more are self-loops, and a cycle is returned.
C26_Witness ==
    /\ pc = "cycles"
    /\ Len(graph.nodes.keys) >= 3
    /\ \E x \in Range(graph.nodes.keys) : Len(graph.nodes.get[x].dependencies) >= 2
    /\ \A x \in Range(graph.nodes.keys) : OnCycle(x) => x \in dependenciesOf(x)
    /\ \A c \in 1..Len(graph.circularDependencies) : Len(graph.circularDependencies[c]) = 2
    /\ graph.circularDependencies # <<>>

\* the cycle without its closing node
openLoop(cycle) == SubSeq(cycle, 1, Len(cycle) - 1)

\* the same nodes in the same cyclic order, from any start (the same start
\* included)
IsRotation(c, d) ==
    /\ Len(c) = Len(d)
    /\ \E k \in 0..(Len(c) - 2) :
         \A i \in 1..(Len(c) - 1) :
             openLoop(d)[i] = openLoop(c)[((i - 1 + k) % (Len(c) - 1)) + 1]

\* C27: no two returned cycles are textually identical or rotations of one
\* another.
C27_NoLoopReportedTwice ==
    pc = "cycles" =>
        \A c, d \in 1..Len(graph.circularDependencies) :
            c # d => ~IsRotation(graph.circularDependencies[c], graph.circularDependencies[d])

\* C27 witness: two cycles are returned, and the edge that closes one of them
\* is twice in the dependencies of its node, so the cycle was found twice.
C27_Witness ==
    /\ pc = "cycles"
    /\ Len(graph.circularDependencies) >= 2
    /\ \E c \in 1..Len(graph.circularDependencies) :
         LET cycle == graph.circularDependencies[c]
             deps == graph.nodes.get[cycle[Len(cycle) - 1]].dependencies
         IN /\ Len(cycle) >= 3
            /\ \E i, j \in 1..Len(deps) : i # j /\ deps[i] = cycle[Len(cycle)] /\ deps[j] = cycle[Len(cycle)]

(***************************************************************************)
(* The dependencies of a node against the file set.                        *)
(***************************************************************************)
\* C28: after analyzeDependencies every path in a node's dependencies is a
\* key of nodes, the path of a file of the input; unresolved and external
\* specifiers are not in dependencies.
C28_DependenciesAreFiles ==
    pc = "done" =>
        /\ Keys = FilePaths
        /\ \A p \in Keys : Range(Node(p).dependencies) \subseteq Keys

\* C28 witness: a file imports a package, a relative specifier no file
\* answers to and a relative specifier that resolves; its dependencies hold
\* the resolved path alone.
C28_Witness ==
    /\ pc = "done"
    /\ \E p \in Keys :
         /\ \E s \in Range(Node(p).imports) : isExternalDependency(s)
         /\ \E s \in Range(Node(p).imports) :
                IsRelative(s) /\ firstMatch(s, p, files) = <<>>
         /\ Len(Node(p).dependencies) = 1
         /\ Len(Node(p).imports) = 3

(***************************************************************************)
(* analyzeComplexity: the functions of a file with their bodies.           *)
(***************************************************************************)
\* line.search(/\S/): the 0-based index of the first character that is not
\* white space, -1 for none
indentOf(line) ==
    LET black == {j \in 1..Len(line) : line[j] \notin WhiteChars}
    IN IF black = {} THEN -1 ELSE Least(black) - 1

\* startLine is 0-based, as the index of forEach
extractPythonFunctionBody(content, startLine) ==
    LET lines == Split(content, "\n")
        RECURSIVE go(_, _, _)
        go(i, baseIndent, body) ==
            IF ~(i < Len(lines)) THEN body
            ELSE LET line == lines[i + 1]
                     indent == indentOf(line)
                 IN IF i = startLine THEN go(i + 1, baseIndent, body \o line \o <<"\n">>)
                    ELSE LET base == IF baseIndent = -1 /\ indent > 0 THEN indent ELSE baseIndent
                         IN IF indent < base /\ Trim(line) # <<>> THEN body
                            ELSE go(i + 1, base, body \o line \o <<"\n">>)
    IN go(startLine, -1, <<>>)

braces(line, ch) == Cardinality({j \in 1..Len(line) : line[j] = ch})

extractFunctionBody(content, startLine) ==
    LET lines == Split(content, "\n")
        RECURSIVE go(_, _, _, _)
        go(i, braceCount, started, body) ==
            IF ~(i < Len(lines)) THEN body
            ELSE LET line == lines[i + 1]
                     count == braceCount + braces(line, "{") - braces(line, "}")
                     open == started \/ braces(line, "{") > 0
                 IN IF open /\ count = 0 THEN body \o line \o <<"\n">>
                    ELSE go(i + 1, count, open, body \o line \o <<"\n">>)
    IN go(startLine, 0, FALSE, <<>>)

\* the entries one line pushes, with the body each push extracts
functionsWithBodyOfLine(content, line, n) ==
    LET names == <<funcMatch(line), arrowMatch(line), pythonFunc(line),
                   IF Contains(line, K_class) THEN <<>> ELSE javaMethod(line),
                   funcMatch(line)>>
        pushed == SelectSeq(<<1, 2, 3, 4, 5>>, LAMBDA k : names[k] # <<>>)
    IN [k \in 1..Len(pushed) |->
          [name |-> names[pushed[k]],
           line |-> n,
           body |-> IF pushed[k] = 3 THEN extractPythonFunctionBody(content, n - 1)
                    ELSE extractFunctionBody(content, n - 1)]]

extractFunctionsWithBody(content) ==
    LET lines == Split(content, "\n")
    IN FlatMap([n \in 1..Len(lines) |-> functionsWithBodyOfLine(content, lines[n], n)])

ComplexityThreshold == 10

complexityOfFile(file) ==
    LET functions == extractFunctionsWithBody(file.content)
        high == SelectSeq(functions,
                    LAMBDA func : calculateCyclomaticComplexity(func.body) > ComplexityThreshold)
    IN [k \in 1..Len(high) |->
          [file |-> file.path,
           function |-> high[k].name,
           complexity |-> calculateCyclomaticComplexity(high[k].body),
           line |-> high[k].line]]

analyzeComplexity(fs) == FlatMap([i \in 1..Len(fs) |-> complexityOfFile(fs[i])])

\* the lines the files are made of: a function of ten branches among them
Q_complex ==
  <<"f", "u", "n", "c", "t", "i", "o", "n", " ", "f", "(", ")", "{", "i",
    "f", "(", "a", ")", "i", "f", "(", "a", ")", "i", "f", "(", "a", ")",
    "i", "f", "(", "a", ")", "i", "f", "(", "a", ")", "i", "f", "(", "a",
    ")", "i", "f", "(", "a", ")", "i", "f", "(", "a", ")", "i", "f", "(",
    "a", ")", "i", "f", "(", "a", ")", "}">>
Q_def ==
  <<"d", "e", "f", " ", "p", "(", "x", ")", ":">>
Q_indented ==
  <<" ", " ", "g", "(", ")">>
Q_arrow ==
  <<"c", "o", "n", "s", "t", " ", "h", " ", "=", " ", "x", " ", "=", ">",
    " ", "x">>
FunctionLines == {Q_function, Q_complex, Q_call, Q_def, Q_indented, Q_arrow}

InitFunctions ==
    /\ \E ls \in SeqsUpTo(FunctionLines, MaxSourceLines) :
         \E language \in Languages :
           qfiles = <<[path |-> P_a, content |-> Join(ls, <<"\n">>), language |-> language]>>
    /\ graph = [NoGraph EXCEPT !.nodes = MapSet(EmptyMap, P_a, nodeOf(P_a, <<>>))]
    /\ files = <<>>
    /\ pc = "idle"
    /\ allBlocks = <<>>
    /\ duplicates = <<>>
    /\ qpc = "start"
    /\ report = NoReport
    /\ ComplexityIdle
    /\ IssuesIdle /\ ImportsIdle /\ ResolveIdle /\ OutcomeIdle

AnalyzeComplexity ==
    /\ qpc = "dead"
    /\ report' = [report EXCEPT !.complexityIssues = analyzeComplexity(qfiles)]
    /\ qpc' = "complexity"
    /\ UNCHANGED <<files, graph, pc, code, complexity, ccpc, qfiles, allBlocks, duplicates,
                   issues, source, extracted, ipc, request, resolution, outcome>>

NextFunctions == FindDeadCode \/ AnalyzeComplexity

SpecFunctions == InitFunctions /\ [][NextFunctions]_vars

OncePerLine(entries) ==
    \A j, k \in 1..Len(entries) : j # k => entries[j].line # entries[k].line

\* C29: extractFunctions returns at most one entry per declaration line, so
\* analyzeComplexity reports at most one finding per (file, line) and
\* findDeadCode at most one function finding per (file, line).
C29_OneEntryPerDeclaration ==
    qpc = "complexity" =>
        /\ \A i \in 1..Len(qfiles) : OncePerLine(extractFunctions(qfiles[i].content))
        /\ OncePerLine(report.complexityIssues)
        /\ OncePerLine(SelectSeq(report.deadCode, LAMBDA d : d.type = "function"))

====
